---- MODULE Spec2Model ----
(***************************************************************************)
(* Model of the normalisation, classification and merge pipeline of        *)
(* ai-act-tracker: src/src/render.py (risk scorer), src/src/extract.py     *)
(* (entity extractor, record builder and merger) and                       *)
(* src/src/courtlistener.py (docket summariser).                           *)
(*                                                                         *)
(* A Python str is a sequence of characters: a tuple of one-character      *)
(* strings.  A character outside ASCII is the token "uXXXX" of its code    *)
(* point (Hangul has no letter case, so lower() leaves it alone).          *)
(***************************************************************************)
EXTENDS Integers, Sequences, FiniteSets, TLC

VARIABLES
    \* risk scorer (render.py)
    r_title,        \* first text field: title / extracted_ai_snippet
    r_reason,       \* second text field: reason / extracted_causes
    r_nature,       \* CLCaseSummary.nature_of_suit
    news_score,     \* result of calculate_news_risk_score
    news_done,
    case_score,     \* result of calculate_case_risk_score
    case_done,
    \* country inference (extract.py)
    c_title,        \* the title given to extract_country
    c_text,         \* the body text given to extract_country
    c_country,      \* its result
    c_done,
    \* build_regulations_from_news (extract.py) and the scoring of its
    \* records by render_markdown (render.py)
    news_items,     \* the argument news_items
    known_cases,    \* the argument known_cases
    lookback_days,  \* the argument lookback_days
    now,            \* datetime.now(timezone.utc) during the call
    idx,            \* the position of "for item in news_items"
    results,        \* the list results
    merged,         \* the returned list(merged.values())
    fetch_log,      \* per item taken: what the loop did with it, and the
                    \* outcome of its page fetch
    scores,         \* the risk score render_markdown gives each record
    pc,             \* "loop", "done" (returned), "rendered"
    \* build_case_summary_from_docket_id (courtlistener.py)
    docket_id,      \* the argument docket_id
    docket_resp,    \* what _get answers for the docket: None or a mapping
    court_resp,     \* what the court request answers: None (non-200,
                    \* exception) or a mapping
    parties_resp,   \* what _get answers for the parties: None, a mapping
                    \* or a list of mappings
    summary,        \* the returned CLCaseSummary, or None
    raised,         \* TRUE when the call ended in an exception
    dpc             \* "call", "returned"

riskVars == <<r_title, r_reason, r_nature, news_score, news_done, case_score, case_done>>
countryVars == <<c_title, c_text, c_country, c_done>>
newsVars == <<news_items, known_cases, lookback_days, now, idx, results, merged,
              fetch_log, scores, pc>>

docketVars == <<docket_id, docket_resp, court_resp, parties_resp, summary, raised, dpc>>

vars == <<riskVars, countryVars, newsVars, docketVars>>

----------------------------------------------------------------------------
(* Python str primitives *)

\* the characters of an ASCII literal (as a tuple: "<<>> \o" makes the
\* function a sequence value, evaluated once)
S(s) == <<>> \o [i \in 1..Len(s) |-> SubSeq(s, i, i)]

UpperCase == S("ABCDEFGHIJKLMNOPQRSTUVWXYZ")
LowerCase == S("abcdefghijklmnopqrstuvwxyz")

lower_char(c) ==
    IF \E i \in 1..Len(UpperCase) : UpperCase[i] = c
    THEN LowerCase[CHOOSE i \in 1..Len(UpperCase) : UpperCase[i] = c]
    ELSE c

\* str.lower()
lower(s) == <<>> \o [i \in 1..Len(s) |-> lower_char(s[i])]

\* k in t  (substring test)
Contains(k, t) ==
    \E i \in 1..(Len(t) - Len(k) + 1) : SubSeq(t, i, i + Len(k) - 1) = k

\* any(k in text for k in kws)
any_in(kws, text) == \E i \in 1..Len(kws) : Contains(kws[i], text)

\* x or d, for a str x
str_or(x, d) == IF x = <<>> THEN d ELSE x

RECURSIVE Concat(_)
Concat(ws) == IF ws = <<>> THEN <<>> ELSE Head(ws) \o Concat(Tail(ws))

Min(a, b) == IF a <= b THEN a ELSE b

\* all sequences over the set W of length at most n
SeqsUpTo(W, n) == UNION {[1..k -> W] : k \in 0..n}

----------------------------------------------------------------------------
(* Risk scorer: render.py *)

NewsCollectionKw == <<S("scrape"), S("crawl"), S("ingest"), S("harvest"), S("mining"),
    S("extraction"), S("bulk"), S("collection"), S("robots.txt"), S("common crawl"),
    S("laion"), S("the pile"), S("bookcorpus"), S("unauthorized")>>
NewsTrainingKw == <<S("train"), S("training"), S("model"), S("llm"), S("generative ai"),
    S("genai"), S("gpt"), S("transformer"), S("weight"), S("fine-tune"), S("diffusion"),
    S("inference")>>
NewsCommercialKw == <<S("commercial"), S("profit"), S("monetiz"), S("revenue"),
    S("subscription"), S("enterprise"), S("paid"), S("for-profit")>>
NewsCopyrightKw == <<S("copyright"), S("infringement"), S("dmca"), S("fair use"),
    S("derivative"), S("exclusive"), S("820")>>
NewsClassActionKw == <<S("class action"), S("putative class"), S("representative")>>

\* calculate_news_risk_score with the commercial-use weight mistyped as 10
news_score_wrong_weight(title, reason) ==
    LET text == lower(str_or(title, <<>>) \o S(" ") \o str_or(reason, <<>>))
        s1 == IF any_in(NewsCollectionKw, text) THEN 30 ELSE 0
        s2 == s1 + (IF any_in(NewsTrainingKw, text) THEN 30 ELSE 0)
        s3 == s2 + (IF any_in(NewsCommercialKw, text) THEN 10 ELSE 0)
        s4 == s3 + (IF any_in(NewsCopyrightKw, text) THEN 15 ELSE 0)
        s5 == s4 + (IF any_in(NewsClassActionKw, text) THEN 10 ELSE 0)
    IN  Min(s5, 100)

calculate_news_risk_score(title, reason) ==
    LET text == lower(str_or(title, <<>>) \o S(" ") \o str_or(reason, <<>>))
        s1 == IF any_in(NewsCollectionKw, text) THEN 30 ELSE 0
        s2 == s1 + (IF any_in(NewsTrainingKw, text) THEN 30 ELSE 0)
        s3 == s2 + (IF any_in(NewsCommercialKw, text) THEN 15 ELSE 0)
        s4 == s3 + (IF any_in(NewsCopyrightKw, text) THEN 15 ELSE 0)
        s5 == s4 + (IF any_in(NewsClassActionKw, text) THEN 10 ELSE 0)
    IN  Min(s5, 100)

CaseCollectionKw == <<S("scrape"), S("crawl"), S("ingest"), S("harvest"), S("mining"),
    S("extraction"), S("bulk"), S("collection"), S("robots.txt"), S("common crawl"),
    S("laion"), S("the pile"), S("bookcorpus"), S("unauthorized")>>
CaseTrainingKw == <<S("train"), S("training"), S("model"), S("llm"), S("generative ai"),
    S("genai"), S("gpt"), S("transformer"), S("weight"), S("fine-tune"), S("diffusion"),
    S("inference")>>
CaseCommercialKw == <<S("commercial"), S("profit"), S("monetiz"), S("revenue"),
    S("subscription"), S("enterprise"), S("paid"), S("for-profit")>>
CaseCopyrightKw == <<S("copyright"), S("infringement"), S("dmca"), S("fair use"),
    S("derivative"), S("exclusive")>>
CaseClassActionKw == <<S("class action"), S("putative class"), S("representative")>>

\* the nature-of-suit code of copyright cases, as the scorer looks for it
NatureCode == S("820")

\* calculate_case_risk_score reading only the snippet, not the causes
case_score_snippet_only(case) ==
    LET text == lower(str_or(case.extracted_ai_snippet, <<>>))
        s1 == IF any_in(CaseCollectionKw, text) THEN 30 ELSE 0
        s2 == s1 + (IF any_in(CaseTrainingKw, text) THEN 30 ELSE 0)
        s3 == s2 + (IF any_in(CaseCommercialKw, text) THEN 15 ELSE 0)
        s4 == s3 + (IF \/ (case.nature_of_suit # <<>>
                           /\ Contains(NatureCode, case.nature_of_suit))
                       \/ any_in(CaseCopyrightKw, text)
                    THEN 15 ELSE 0)
        s5 == s4 + (IF any_in(CaseClassActionKw, text) THEN 10 ELSE 0)
    IN  Min(s5, 100)

\* case: a record with the fields of CLCaseSummary the scorer reads
calculate_case_risk_score(case) ==
    LET text == lower(str_or(case.extracted_ai_snippet, <<>>) \o S(" ")
                      \o str_or(case.extracted_causes, <<>>))
        s1 == IF any_in(CaseCollectionKw, text) THEN 30 ELSE 0
        s2 == s1 + (IF any_in(CaseTrainingKw, text) THEN 30 ELSE 0)
        s3 == s2 + (IF any_in(CaseCommercialKw, text) THEN 15 ELSE 0)
        s4 == s3 + (IF \/ (case.nature_of_suit # <<>>
                           /\ Contains(NatureCode, case.nature_of_suit))
                       \/ any_in(CaseCopyrightKw, text)
                    THEN 15 ELSE 0)
        s5 == s4 + (IF any_in(CaseClassActionKw, text) THEN 10 ELSE 0)
    IN  Min(s5, 100)

----------------------------------------------------------------------------
(* Entity extractor: extract.py *)

\* mapping: the country keyword table, in declaration order (a dict keeps
\* insertion order and no label is declared twice)
CountryMapping == <<
    \* Ascension and Tristan da Cunha
    [country |-> S("Ascension and Tristan da Cunha"),
     keywords |-> <<S("Ascension and Tristan da Cunha"), S("saint helena")>>],
    \* EU
    [country |-> S("EU"),
     keywords |-> <<S("eu "), S("european union"), <<"uC720", "uB7FD", "uC5F0", "uD569">>, <<"uBE0C", "uB93C", "uC140">>, <<"uC720", "uB7FD">>>>],
    \* 가나
    [country |-> <<"uAC00", "uB098">>,
     keywords |-> <<S("ghana"), <<"uAC00", "uB098">>>>],
    \* 가봉
    [country |-> <<"uAC00", "uBD09">>,
     keywords |-> <<S("gabon"), <<"uAC00", "uBD09">>>>],
    \* 가이아나
    [country |-> <<"uAC00", "uC774", "uC544", "uB098">>,
     keywords |-> <<S("guyana"), <<"uAC00", "uC774", "uC544", "uB098">>>>],
    \* 감비아
    [country |-> <<"uAC10", "uBE44", "uC544">>,
     keywords |-> <<S("gambia"), <<"uAC10", "uBE44", "uC544">>>>],
    \* 건지
    [country |-> <<"uAC74", "uC9C0">>,
     keywords |-> <<S("guernsey"), <<"uAC74", "uC9C0">>>>],
    \* 과들루프
    [country |-> <<"uACFC", "uB4E4", "uB8E8", "uD504">>,
     keywords |-> <<S("guadeloupe"), <<"uACFC", "uB4E4", "uB8E8", "uD504">>>>],
    \* 과테말라
    [country |-> <<"uACFC", "uD14C", "uB9D0", "uB77C">>,
     keywords |-> <<S("guatemala"), <<"uACFC", "uD14C", "uB9D0", "uB77C">>>>],
    \* 괌
    [country |-> <<"uAD0C">>,
     keywords |-> <<S("guam"), <<"uAD0C">>>>],
    \* 그레나다
    [country |-> <<"uADF8", "uB808", "uB098", "uB2E4">>,
     keywords |-> <<S("grenada"), <<"uADF8", "uB808", "uB098", "uB2E4">>>>],
    \* 그리스
    [country |-> <<"uADF8", "uB9AC", "uC2A4">>,
     keywords |-> <<S("greece"), <<"uADF8", "uB9AC", "uC2A4">>>>],
    \* 그린란드
    [country |-> <<"uADF8", "uB9B0", "uB780", "uB4DC">>,
     keywords |-> <<S("greenland"), <<"uADF8", "uB9B0", "uB780", "uB4DC">>>>],
    \* 글로벌
    [country |-> <<"uAE00", "uB85C", "uBC8C">>,
     keywords |-> <<S("global"), S("international"), <<"uAE00", "uB85C", "uBC8C">>, <<"uAD6D", "uC81C">>>>],
    \* 기니
    [country |-> <<"uAE30", "uB2C8">>,
     keywords |-> <<S("guinea"), <<"uAE30", "uB2C8">>>>],
    \* 기니비사우
    [country |-> <<"uAE30", "uB2C8", "uBE44", "uC0AC", "uC6B0">>,
     keywords |-> <<S("guinea-bissau"), <<"uAE30", "uB2C8", "uBE44", "uC0AC", "uC6B0">>>>],
    \* 나미비아
    [country |-> <<"uB098", "uBBF8", "uBE44", "uC544">>,
     keywords |-> <<S("namibia"), <<"uB098", "uBBF8", "uBE44", "uC544">>>>],
    \* 나우루
    [country |-> <<"uB098", "uC6B0", "uB8E8">>,
     keywords |-> <<S("nauru"), <<"uB098", "uC6B0", "uB8E8">>>>],
    \* 나이지리아
    [country |-> <<"uB098", "uC774", "uC9C0", "uB9AC", "uC544">>,
     keywords |-> <<S("nigeria"), <<"uB098", "uC774", "uC9C0", "uB9AC", "uC544">>>>],
    \* 남수단
    [country |-> <<"uB0A8", "uC218", "uB2E8">>,
     keywords |-> <<S("south sudan"), <<"uB0A8", "uC218", "uB2E8">>>>],
    \* 남아프리카 공화국
    [country |-> <<"uB0A8", "uC544", "uD504", "uB9AC", "uCE74", " ", "uACF5", "uD654", "uAD6D">>,
     keywords |-> <<S("south africa"), <<"uB0A8", "uC544", "uD504", "uB9AC", "uCE74", " ", "uACF5", "uD654", "uAD6D">>>>],
    \* 네덜란드
    [country |-> <<"uB124", "uB35C", "uB780", "uB4DC">>,
     keywords |-> <<S("netherlands"), <<"uB124", "uB35C", "uB780", "uB4DC">>>>],
    \* 네팔
    [country |-> <<"uB124", "uD314">>,
     keywords |-> <<S("nepal"), <<"uB124", "uD314">>>>],
    \* 노르웨이
    [country |-> <<"uB178", "uB974", "uC6E8", "uC774">>,
     keywords |-> <<S("norway"), <<"uB178", "uB974", "uC6E8", "uC774">>>>],
    \* 노퍽 섬
    [country |-> <<"uB178", "uD37D", " ", "uC12C">>,
     keywords |-> <<S("norfolk island"), <<"uB178", "uD37D", " ", "uC12C">>>>],
    \* 누벨칼레도니
    [country |-> <<"uB204", "uBCA8", "uCE7C", "uB808", "uB3C4", "uB2C8">>,
     keywords |-> <<S("new caledonia"), <<"uB204", "uBCA8", "uCE7C", "uB808", "uB3C4", "uB2C8">>>>],
    \* 뉴질랜드
    [country |-> <<"uB274", "uC9C8", "uB79C", "uB4DC">>,
     keywords |-> <<S("new zealand"), <<"uB274", "uC9C8", "uB79C", "uB4DC">>>>],
    \* 니우에
    [country |-> <<"uB2C8", "uC6B0", "uC5D0">>,
     keywords |-> <<S("niue"), <<"uB2C8", "uC6B0", "uC5D0">>>>],
    \* 니제르
    [country |-> <<"uB2C8", "uC81C", "uB974">>,
     keywords |-> <<S("niger"), <<"uB2C8", "uC81C", "uB974">>>>],
    \* 니카라과
    [country |-> <<"uB2C8", "uCE74", "uB77C", "uACFC">>,
     keywords |-> <<S("nicaragua"), <<"uB2C8", "uCE74", "uB77C", "uACFC">>>>],
    \* 대만
    [country |-> <<"uB300", "uB9CC">>,
     keywords |-> <<S("taiwan"), <<"uB300", "uB9CC">>>>],
    \* 대한민국
    [country |-> <<"uB300", "uD55C", "uBBFC", "uAD6D">>,
     keywords |-> <<S("korea"), S("republic of korea"), S("south korea"), <<"uB300", "uD55C", "uBBFC", "uAD6D">>, <<"uD55C", "uAD6D">>>>],
    \* 덴마크
    [country |-> <<"uB374", "uB9C8", "uD06C">>,
     keywords |-> <<S("denmark"), <<"uB374", "uB9C8", "uD06C">>>>],
    \* 도미니카
    [country |-> <<"uB3C4", "uBBF8", "uB2C8", "uCE74">>,
     keywords |-> <<S("dominica"), <<"uB3C4", "uBBF8", "uB2C8", "uCE74">>>>],
    \* 도미니카 공화국
    [country |-> <<"uB3C4", "uBBF8", "uB2C8", "uCE74", " ", "uACF5", "uD654", "uAD6D">>,
     keywords |-> <<S("dominican republic"), <<"uB3C4", "uBBF8", "uB2C8", "uCE74", " ", "uACF5", "uD654", "uAD6D">>>>],
    \* 독일
    [country |-> <<"uB3C5", "uC77C">>,
     keywords |-> <<S("germany"), <<"uB3C5", "uC77C">>, <<"uBCA0", "uB97C", "uB9B0">>>>],
    \* 동티모르
    [country |-> <<"uB3D9", "uD2F0", "uBAA8", "uB974">>,
     keywords |-> <<S("timor-leste"), <<"uB3D9", "uD2F0", "uBAA8", "uB974">>>>],
    \* 라오스
    [country |-> <<"uB77C", "uC624", "uC2A4">>,
     keywords |-> <<S("laos"), <<"uB77C", "uC624", "uC2A4">>>>],
    \* 라이베리아
    [country |-> <<"uB77C", "uC774", "uBCA0", "uB9AC", "uC544">>,
     keywords |-> <<S("liberia"), <<"uB77C", "uC774", "uBCA0", "uB9AC", "uC544">>>>],
    \* 라트비아
    [country |-> <<"uB77C", "uD2B8", "uBE44", "uC544">>,
     keywords |-> <<S("latvia"), <<"uB77C", "uD2B8", "uBE44", "uC544">>>>],
    \* 러시아
    [country |-> <<"uB7EC", "uC2DC", "uC544">>,
     keywords |-> <<S("russia"), <<"uB7EC", "uC2DC", "uC544">>>>],
    \* 레바논
    [country |-> <<"uB808", "uBC14", "uB17C">>,
     keywords |-> <<S("lebanon"), <<"uB808", "uBC14", "uB17C">>>>],
    \* 레소토
    [country |-> <<"uB808", "uC18C", "uD1A0">>,
     keywords |-> <<S("lesotho"), <<"uB808", "uC18C", "uD1A0">>>>],
    \* 레위니옹
    [country |-> <<"uB808", "uC704", "uB2C8", "uC639">>,
     keywords |-> <<<<"r", "u00E9", "u", "n", "i", "o", "n">>, <<"uB808", "uC704", "uB2C8", "uC639">>>>],
    \* 루마니아
    [country |-> <<"uB8E8", "uB9C8", "uB2C8", "uC544">>,
     keywords |-> <<S("romania"), <<"uB8E8", "uB9C8", "uB2C8", "uC544">>>>],
    \* 룩셈부르크
    [country |-> <<"uB8E9", "uC148", "uBD80", "uB974", "uD06C">>,
     keywords |-> <<S("luxembourg"), <<"uB8E9", "uC148", "uBD80", "uB974", "uD06C">>>>],
    \* 르완다
    [country |-> <<"uB974", "uC644", "uB2E4">>,
     keywords |-> <<S("rwanda"), <<"uB974", "uC644", "uB2E4">>>>],
    \* 리비아
    [country |-> <<"uB9AC", "uBE44", "uC544">>,
     keywords |-> <<S("libya"), <<"uB9AC", "uBE44", "uC544">>>>],
    \* 리투아니아
    [country |-> <<"uB9AC", "uD22C", "uC544", "uB2C8", "uC544">>,
     keywords |-> <<S("lithuania"), <<"uB9AC", "uD22C", "uC544", "uB2C8", "uC544">>>>],
    \* 리히텐슈타인
    [country |-> <<"uB9AC", "uD788", "uD150", "uC288", "uD0C0", "uC778">>,
     keywords |-> <<S("liechtenstein"), <<"uB9AC", "uD788", "uD150", "uC288", "uD0C0", "uC778">>>>],
    \* 마다가스카르
    [country |-> <<"uB9C8", "uB2E4", "uAC00", "uC2A4", "uCE74", "uB974">>,
     keywords |-> <<S("madagascar"), <<"uB9C8", "uB2E4", "uAC00", "uC2A4", "uCE74", "uB974">>>>],
    \* 마르티니크
    [country |-> <<"uB9C8", "uB974", "uD2F0", "uB2C8", "uD06C">>,
     keywords |-> <<S("martinique"), <<"uB9C8", "uB974", "uD2F0", "uB2C8", "uD06C">>>>],
    \* 마셜 제도
    [country |-> <<"uB9C8", "uC15C", " ", "uC81C", "uB3C4">>,
     keywords |-> <<S("marshall islands"), <<"uB9C8", "uC15C", " ", "uC81C", "uB3C4">>>>],
    \* 마요트
    [country |-> <<"uB9C8", "uC694", "uD2B8">>,
     keywords |-> <<S("mayotte"), <<"uB9C8", "uC694", "uD2B8">>>>],
    \* 마카오
    [country |-> <<"uB9C8", "uCE74", "uC624">>,
     keywords |-> <<S("macau"), <<"uB9C8", "uCE74", "uC624">>>>],
    \* 말라위
    [country |-> <<"uB9D0", "uB77C", "uC704">>,
     keywords |-> <<S("malawi"), <<"uB9D0", "uB77C", "uC704">>>>],
    \* 말레이시아
    [country |-> <<"uB9D0", "uB808", "uC774", "uC2DC", "uC544">>,
     keywords |-> <<S("malaysia"), <<"uB9D0", "uB808", "uC774", "uC2DC", "uC544">>>>],
    \* 말리
    [country |-> <<"uB9D0", "uB9AC">>,
     keywords |-> <<S("mali"), <<"uB9D0", "uB9AC">>>>],
    \* 맨 섬
    [country |-> <<"uB9E8", " ", "uC12C">>,
     keywords |-> <<S("isle of man"), <<"uB9E8", " ", "uC12C">>>>],
    \* 멕시코
    [country |-> <<"uBA55", "uC2DC", "uCF54">>,
     keywords |-> <<S("mexico"), <<"uBA55", "uC2DC", "uCF54">>>>],
    \* 모나코
    [country |-> <<"uBAA8", "uB098", "uCF54">>,
     keywords |-> <<S("monaco"), <<"uBAA8", "uB098", "uCF54">>>>],
    \* 모로코
    [country |-> <<"uBAA8", "uB85C", "uCF54">>,
     keywords |-> <<S("morocco"), <<"uBAA8", "uB85C", "uCF54">>>>],
    \* 모리셔스
    [country |-> <<"uBAA8", "uB9AC", "uC154", "uC2A4">>,
     keywords |-> <<S("mauritius"), <<"uBAA8", "uB9AC", "uC154", "uC2A4">>>>],
    \* 모리타니
    [country |-> <<"uBAA8", "uB9AC", "uD0C0", "uB2C8">>,
     keywords |-> <<S("mauritania"), <<"uBAA8", "uB9AC", "uD0C0", "uB2C8">>>>],
    \* 모잠비크
    [country |-> <<"uBAA8", "uC7A0", "uBE44", "uD06C">>,
     keywords |-> <<S("mozambique"), <<"uBAA8", "uC7A0", "uBE44", "uD06C">>>>],
    \* 몬테네그로
    [country |-> <<"uBAAC", "uD14C", "uB124", "uADF8", "uB85C">>,
     keywords |-> <<S("montenegro"), <<"uBAAC", "uD14C", "uB124", "uADF8", "uB85C">>>>],
    \* 몬트세랫
    [country |-> <<"uBAAC", "uD2B8", "uC138", "uB7AB">>,
     keywords |-> <<S("montserrat"), <<"uBAAC", "uD2B8", "uC138", "uB7AB">>>>],
    \* 몰도바
    [country |-> <<"uBAB0", "uB3C4", "uBC14">>,
     keywords |-> <<S("moldova"), <<"uBAB0", "uB3C4", "uBC14">>>>],
    \* 몰디브
    [country |-> <<"uBAB0", "uB514", "uBE0C">>,
     keywords |-> <<S("maldives"), <<"uBAB0", "uB514", "uBE0C">>>>],
    \* 몰타
    [country |-> <<"uBAB0", "uD0C0">>,
     keywords |-> <<S("malta"), <<"uBAB0", "uD0C0">>>>],
    \* 몽골
    [country |-> <<"uBABD", "uACE8">>,
     keywords |-> <<S("mongolia"), <<"uBABD", "uACE8">>>>],
    \* 미국
    [country |-> <<"uBBF8", "uAD6D">>,
     keywords |-> <<S("u.s."), S("u.s.a"), S("united states"), S("usa"), <<"uBBF8", " ", "uC5F0", "uBC29">>, <<"uBBF8", "uAD6D">>>>],
    \* 미얀마
    [country |-> <<"uBBF8", "uC580", "uB9C8">>,
     keywords |-> <<S("myanmar (burma)"), <<"uBBF8", "uC580", "uB9C8">>>>],
    \* 미크로네시아
    [country |-> <<"uBBF8", "uD06C", "uB85C", "uB124", "uC2DC", "uC544">>,
     keywords |-> <<S("micronesia"), <<"uBBF8", "uD06C", "uB85C", "uB124", "uC2DC", "uC544">>>>],
    \* 바누아투
    [country |-> <<"uBC14", "uB204", "uC544", "uD22C">>,
     keywords |-> <<S("vanuatu"), <<"uBC14", "uB204", "uC544", "uD22C">>>>],
    \* 바레인
    [country |-> <<"uBC14", "uB808", "uC778">>,
     keywords |-> <<S("bahrain"), <<"uBC14", "uB808", "uC778">>>>],
    \* 바베이도스
    [country |-> <<"uBC14", "uBCA0", "uC774", "uB3C4", "uC2A4">>,
     keywords |-> <<S("barbados"), <<"uBC14", "uBCA0", "uC774", "uB3C4", "uC2A4">>>>],
    \* 바티칸 시국
    [country |-> <<"uBC14", "uD2F0", "uCE78", " ", "uC2DC", "uAD6D">>,
     keywords |-> <<S("vatican city (holy see)"), <<"uBC14", "uD2F0", "uCE78", " ", "uC2DC", "uAD6D">>>>],
    \* 바하마
    [country |-> <<"uBC14", "uD558", "uB9C8">>,
     keywords |-> <<S("bahamas"), <<"uBC14", "uD558", "uB9C8">>>>],
    \* 방글라데시
    [country |-> <<"uBC29", "uAE00", "uB77C", "uB370", "uC2DC">>,
     keywords |-> <<S("bangladesh"), <<"uBC29", "uAE00", "uB77C", "uB370", "uC2DC">>>>],
    \* 버뮤다
    [country |-> <<"uBC84", "uBBA4", "uB2E4">>,
     keywords |-> <<S("bermuda"), <<"uBC84", "uBBA4", "uB2E4">>>>],
    \* 베냉
    [country |-> <<"uBCA0", "uB0C9">>,
     keywords |-> <<S("benin"), <<"uBCA0", "uB0C9">>>>],
    \* 베네수엘라
    [country |-> <<"uBCA0", "uB124", "uC218", "uC5D8", "uB77C">>,
     keywords |-> <<S("venezuela"), <<"uBCA0", "uB124", "uC218", "uC5D8", "uB77C">>>>],
    \* 베트남
    [country |-> <<"uBCA0", "uD2B8", "uB0A8">>,
     keywords |-> <<S("vietnam"), <<"uBCA0", "uD2B8", "uB0A8">>>>],
    \* 벨기에
    [country |-> <<"uBCA8", "uAE30", "uC5D0">>,
     keywords |-> <<S("belgium"), <<"uBCA8", "uAE30", "uC5D0">>>>],
    \* 벨라루스
    [country |-> <<"uBCA8", "uB77C", "uB8E8", "uC2A4">>,
     keywords |-> <<S("belarus"), <<"uBCA8", "uB77C", "uB8E8", "uC2A4">>>>],
    \* 벨리즈
    [country |-> <<"uBCA8", "uB9AC", "uC988">>,
     keywords |-> <<S("belize"), <<"uBCA8", "uB9AC", "uC988">>>>],
    \* 보네르
    [country |-> <<"uBCF4", "uB124", "uB974">>,
     keywords |-> <<S("bonaire"), <<"uBCF4", "uB124", "uB974">>>>],
    \* 보스니아 헤르체고비나
    [country |-> <<"uBCF4", "uC2A4", "uB2C8", "uC544", " ", "uD5E4", "uB974", "uCCB4", "uACE0", "uBE44", "uB098">>,
     keywords |-> <<S("bosnia and herzegovina"), <<"uBCF4", "uC2A4", "uB2C8", "uC544", " ", "uD5E4", "uB974", "uCCB4", "uACE0", "uBE44", "uB098">>>>],
    \* 보츠와나
    [country |-> <<"uBCF4", "uCE20", "uC640", "uB098">>,
     keywords |-> <<S("botswana"), <<"uBCF4", "uCE20", "uC640", "uB098">>>>],
    \* 볼리비아
    [country |-> <<"uBCFC", "uB9AC", "uBE44", "uC544">>,
     keywords |-> <<S("bolivia"), <<"uBCFC", "uB9AC", "uBE44", "uC544">>>>],
    \* 부룬디
    [country |-> <<"uBD80", "uB8EC", "uB514">>,
     keywords |-> <<S("burundi"), <<"uBD80", "uB8EC", "uB514">>>>],
    \* 부르키나파소
    [country |-> <<"uBD80", "uB974", "uD0A4", "uB098", "uD30C", "uC18C">>,
     keywords |-> <<S("burkina faso"), <<"uBD80", "uB974", "uD0A4", "uB098", "uD30C", "uC18C">>>>],
    \* 부베 섬
    [country |-> <<"uBD80", "uBCA0", " ", "uC12C">>,
     keywords |-> <<S("bouvet island"), <<"uBD80", "uBCA0", " ", "uC12C">>>>],
    \* 부탄
    [country |-> <<"uBD80", "uD0C4">>,
     keywords |-> <<S("bhutan"), <<"uBD80", "uD0C4">>>>],
    \* 북마케도니아
    [country |-> <<"uBD81", "uB9C8", "uCF00", "uB3C4", "uB2C8", "uC544">>,
     keywords |-> <<S("north macedonia"), <<"uBD81", "uB9C8", "uCF00", "uB3C4", "uB2C8", "uC544">>>>],
    \* 북한
    [country |-> <<"uBD81", "uD55C">>,
     keywords |-> <<S("north korea"), <<"uBD81", "uD55C">>>>],
    \* 불가리아
    [country |-> <<"uBD88", "uAC00", "uB9AC", "uC544">>,
     keywords |-> <<S("bulgaria"), <<"uBD88", "uAC00", "uB9AC", "uC544">>>>],
    \* 브라질
    [country |-> <<"uBE0C", "uB77C", "uC9C8">>,
     keywords |-> <<S("brazil"), <<"uBE0C", "uB77C", "uC9C8">>>>],
    \* 브루나이
    [country |-> <<"uBE0C", "uB8E8", "uB098", "uC774">>,
     keywords |-> <<S("brunei darussalam"), <<"uBE0C", "uB8E8", "uB098", "uC774">>>>],
    \* 사모아
    [country |-> <<"uC0AC", "uBAA8", "uC544">>,
     keywords |-> <<S("samoa"), <<"uC0AC", "uBAA8", "uC544">>>>],
    \* 사우디아라비아
    [country |-> <<"uC0AC", "uC6B0", "uB514", "uC544", "uB77C", "uBE44", "uC544">>,
     keywords |-> <<S("saudi arabia"), <<"uC0AC", "uC6B0", "uB514", "uC544", "uB77C", "uBE44", "uC544">>>>],
    \* 산마리노
    [country |-> <<"uC0B0", "uB9C8", "uB9AC", "uB178">>,
     keywords |-> <<S("san marino"), <<"uC0B0", "uB9C8", "uB9AC", "uB178">>>>],
    \* 상투메 프린시페
    [country |-> <<"uC0C1", "uD22C", "uBA54", " ", "uD504", "uB9B0", "uC2DC", "uD398">>,
     keywords |-> <<S("sao tome and principe"), <<"uC0C1", "uD22C", "uBA54", " ", "uD504", "uB9B0", "uC2DC", "uD398">>>>],
    \* 생마르탱
    [country |-> <<"uC0DD", "uB9C8", "uB974", "uD0F1">>,
     keywords |-> <<S("saint martin (french part)"), <<"uC0DD", "uB9C8", "uB974", "uD0F1">>>>],
    \* 생바르텔레미
    [country |-> <<"uC0DD", "uBC14", "uB974", "uD154", "uB808", "uBBF8">>,
     keywords |-> <<<<"s", "a", "i", "n", "t", " ", "b", "a", "r", "t", "h", "u00E9", "l", "e", "m", "y">>, <<"uC0DD", "uBC14", "uB974", "uD154", "uB808", "uBBF8">>>>],
    \* 생피에르 미클롱
    [country |-> <<"uC0DD", "uD53C", "uC5D0", "uB974", " ", "uBBF8", "uD074", "uB871">>,
     keywords |-> <<S("saint pierre and miquelon"), <<"uC0DD", "uD53C", "uC5D0", "uB974", " ", "uBBF8", "uD074", "uB871">>>>],
    \* 서사하라
    [country |-> <<"uC11C", "uC0AC", "uD558", "uB77C">>,
     keywords |-> <<S("western sahara"), <<"uC11C", "uC0AC", "uD558", "uB77C">>>>],
    \* 세네갈
    [country |-> <<"uC138", "uB124", "uAC08">>,
     keywords |-> <<S("senegal"), <<"uC138", "uB124", "uAC08">>>>],
    \* 세르비아
    [country |-> <<"uC138", "uB974", "uBE44", "uC544">>,
     keywords |-> <<S("serbia"), <<"uC138", "uB974", "uBE44", "uC544">>>>],
    \* 세이셸
    [country |-> <<"uC138", "uC774", "uC178">>,
     keywords |-> <<S("seychelles"), <<"uC138", "uC774", "uC178">>>>],
    \* 세인트루시아
    [country |-> <<"uC138", "uC778", "uD2B8", "uB8E8", "uC2DC", "uC544">>,
     keywords |-> <<S("saint lucia"), <<"uC138", "uC778", "uD2B8", "uB8E8", "uC2DC", "uC544">>>>],
    \* 세인트빈센트 그레나딘
    [country |-> <<"uC138", "uC778", "uD2B8", "uBE48", "uC13C", "uD2B8", " ", "uADF8", "uB808", "uB098", "uB518">>,
     keywords |-> <<S("saint vincent and the grenadines"), <<"uC138", "uC778", "uD2B8", "uBE48", "uC13C", "uD2B8", " ", "uADF8", "uB808", "uB098", "uB518">>>>],
    \* 세인트키츠 네비스
    [country |-> <<"uC138", "uC778", "uD2B8", "uD0A4", "uCE20", " ", "uB124", "uBE44", "uC2A4">>,
     keywords |-> <<S("saint kitts and nevis"), <<"uC138", "uC778", "uD2B8", "uD0A4", "uCE20", " ", "uB124", "uBE44", "uC2A4">>>>],
    \* 소말리아
    [country |-> <<"uC18C", "uB9D0", "uB9AC", "uC544">>,
     keywords |-> <<S("somalia"), <<"uC18C", "uB9D0", "uB9AC", "uC544">>>>],
    \* 솔로몬 제도
    [country |-> <<"uC194", "uB85C", "uBAAC", " ", "uC81C", "uB3C4">>,
     keywords |-> <<S("solomon islands"), <<"uC194", "uB85C", "uBAAC", " ", "uC81C", "uB3C4">>>>],
    \* 수단
    [country |-> <<"uC218", "uB2E8">>,
     keywords |-> <<S("sudan"), <<"uC218", "uB2E8">>>>],
    \* 수리남
    [country |-> <<"uC218", "uB9AC", "uB0A8">>,
     keywords |-> <<S("suriname"), <<"uC218", "uB9AC", "uB0A8">>>>],
    \* 스리랑카
    [country |-> <<"uC2A4", "uB9AC", "uB791", "uCE74">>,
     keywords |-> <<S("sri lanka"), <<"uC2A4", "uB9AC", "uB791", "uCE74">>>>],
    \* 스웨덴
    [country |-> <<"uC2A4", "uC6E8", "uB374">>,
     keywords |-> <<S("sweden"), <<"uC2A4", "uC6E8", "uB374">>>>],
    \* 스위스
    [country |-> <<"uC2A4", "uC704", "uC2A4">>,
     keywords |-> <<S("switzerland"), <<"uC2A4", "uC704", "uC2A4">>>>],
    \* 스페인
    [country |-> <<"uC2A4", "uD398", "uC778">>,
     keywords |-> <<S("spain"), <<"uC2A4", "uD398", "uC778">>>>],
    \* 슬로바키아
    [country |-> <<"uC2AC", "uB85C", "uBC14", "uD0A4", "uC544">>,
     keywords |-> <<S("slovakia"), <<"uC2AC", "uB85C", "uBC14", "uD0A4", "uC544">>>>],
    \* 슬로베니아
    [country |-> <<"uC2AC", "uB85C", "uBCA0", "uB2C8", "uC544">>,
     keywords |-> <<S("slovenia"), <<"uC2AC", "uB85C", "uBCA0", "uB2C8", "uC544">>>>],
    \* 시리아
    [country |-> <<"uC2DC", "uB9AC", "uC544">>,
     keywords |-> <<S("syria"), <<"uC2DC", "uB9AC", "uC544">>>>],
    \* 시에라리온
    [country |-> <<"uC2DC", "uC5D0", "uB77C", "uB9AC", "uC628">>,
     keywords |-> <<S("sierra leone"), <<"uC2DC", "uC5D0", "uB77C", "uB9AC", "uC628">>>>],
    \* 신트마르턴
    [country |-> <<"uC2E0", "uD2B8", "uB9C8", "uB974", "uD134">>,
     keywords |-> <<S("sint maarten (dutch part)"), <<"uC2E0", "uD2B8", "uB9C8", "uB974", "uD134">>>>],
    \* 싱가포르
    [country |-> <<"uC2F1", "uAC00", "uD3EC", "uB974">>,
     keywords |-> <<S("singapore"), <<"uC2F1", "uAC00", "uD3EC", "uB974">>>>],
    \* 아랍에미리트
    [country |-> <<"uC544", "uB78D", "uC5D0", "uBBF8", "uB9AC", "uD2B8">>,
     keywords |-> <<S("united arab emirates"), <<"uC544", "uB78D", "uC5D0", "uBBF8", "uB9AC", "uD2B8">>>>],
    \* 아루바
    [country |-> <<"uC544", "uB8E8", "uBC14">>,
     keywords |-> <<S("aruba"), <<"uC544", "uB8E8", "uBC14">>>>],
    \* 아르메니아
    [country |-> <<"uC544", "uB974", "uBA54", "uB2C8", "uC544">>,
     keywords |-> <<S("armenia"), <<"uC544", "uB974", "uBA54", "uB2C8", "uC544">>>>],
    \* 아르헨티나
    [country |-> <<"uC544", "uB974", "uD5E8", "uD2F0", "uB098">>,
     keywords |-> <<S("argentina"), <<"uC544", "uB974", "uD5E8", "uD2F0", "uB098">>>>],
    \* 아메리칸사모아
    [country |-> <<"uC544", "uBA54", "uB9AC", "uCE78", "uC0AC", "uBAA8", "uC544">>,
     keywords |-> <<S("american samoa"), <<"uC544", "uBA54", "uB9AC", "uCE78", "uC0AC", "uBAA8", "uC544">>>>],
    \* 아이슬란드
    [country |-> <<"uC544", "uC774", "uC2AC", "uB780", "uB4DC">>,
     keywords |-> <<S("iceland"), <<"uC544", "uC774", "uC2AC", "uB780", "uB4DC">>>>],
    \* 아이티
    [country |-> <<"uC544", "uC774", "uD2F0">>,
     keywords |-> <<S("haiti"), <<"uC544", "uC774", "uD2F0">>>>],
    \* 아일랜드
    [country |-> <<"uC544", "uC77C", "uB79C", "uB4DC">>,
     keywords |-> <<S("ireland"), <<"uC544", "uC77C", "uB79C", "uB4DC">>>>],
    \* 아제르바이잔
    [country |-> <<"uC544", "uC81C", "uB974", "uBC14", "uC774", "uC794">>,
     keywords |-> <<S("azerbaijan"), <<"uC544", "uC81C", "uB974", "uBC14", "uC774", "uC794">>>>],
    \* 아프가니스탄
    [country |-> <<"uC544", "uD504", "uAC00", "uB2C8", "uC2A4", "uD0C4">>,
     keywords |-> <<S("afghanistan"), <<"uC544", "uD504", "uAC00", "uB2C8", "uC2A4", "uD0C4">>>>],
    \* 안도라
    [country |-> <<"uC548", "uB3C4", "uB77C">>,
     keywords |-> <<S("andorra"), <<"uC548", "uB3C4", "uB77C">>>>],
    \* 알바니아
    [country |-> <<"uC54C", "uBC14", "uB2C8", "uC544">>,
     keywords |-> <<S("albania"), <<"uC54C", "uBC14", "uB2C8", "uC544">>>>],
    \* 알제리
    [country |-> <<"uC54C", "uC81C", "uB9AC">>,
     keywords |-> <<S("algeria"), <<"uC54C", "uC81C", "uB9AC">>>>],
    \* 앙골라
    [country |-> <<"uC559", "uACE8", "uB77C">>,
     keywords |-> <<S("angola"), <<"uC559", "uACE8", "uB77C">>>>],
    \* 앤티가 바부다
    [country |-> <<"uC564", "uD2F0", "uAC00", " ", "uBC14", "uBD80", "uB2E4">>,
     keywords |-> <<S("antigua and barbuda"), <<"uC564", "uD2F0", "uAC00", " ", "uBC14", "uBD80", "uB2E4">>>>],
    \* 앵귈라
    [country |-> <<"uC575", "uADC8", "uB77C">>,
     keywords |-> <<S("anguilla"), <<"uC575", "uADC8", "uB77C">>>>],
    \* 어센션 섬
    [country |-> <<"uC5B4", "uC13C", "uC158", " ", "uC12C">>,
     keywords |-> <<S("ascension island"), <<"uC5B4", "uC13C", "uC158", " ", "uC12C">>>>],
    \* 에리트레아
    [country |-> <<"uC5D0", "uB9AC", "uD2B8", "uB808", "uC544">>,
     keywords |-> <<S("eritrea"), <<"uC5D0", "uB9AC", "uD2B8", "uB808", "uC544">>>>],
    \* 에스와티니
    [country |-> <<"uC5D0", "uC2A4", "uC640", "uD2F0", "uB2C8">>,
     keywords |-> <<S("eswatini"), <<"uC5D0", "uC2A4", "uC640", "uD2F0", "uB2C8">>>>],
    \* 에스토니아
    [country |-> <<"uC5D0", "uC2A4", "uD1A0", "uB2C8", "uC544">>,
     keywords |-> <<S("estonia"), <<"uC5D0", "uC2A4", "uD1A0", "uB2C8", "uC544">>>>],
    \* 에콰도르
    [country |-> <<"uC5D0", "uCF70", "uB3C4", "uB974">>,
     keywords |-> <<S("ecuador"), <<"uC5D0", "uCF70", "uB3C4", "uB974">>>>],
    \* 에티오피아
    [country |-> <<"uC5D0", "uD2F0", "uC624", "uD53C", "uC544">>,
     keywords |-> <<S("ethiopia"), <<"uC5D0", "uD2F0", "uC624", "uD53C", "uC544">>>>],
    \* 엘살바도르
    [country |-> <<"uC5D8", "uC0B4", "uBC14", "uB3C4", "uB974">>,
     keywords |-> <<S("el salvador"), <<"uC5D8", "uC0B4", "uBC14", "uB3C4", "uB974">>>>],
    \* 영국
    [country |-> <<"uC601", "uAD6D">>,
     keywords |-> <<S("uk "), S("united kingdom"), <<"uB7F0", "uB358">>, <<"uC601", "uAD6D">>>>],
    \* 영국령 버진아일랜드
    [country |-> <<"uC601", "uAD6D", "uB839", " ", "uBC84", "uC9C4", "uC544", "uC77C", "uB79C", "uB4DC">>,
     keywords |-> <<S("british virgin islands"), <<"uC601", "uAD6D", "uB839", " ", "uBC84", "uC9C4", "uC544", "uC77C", "uB79C", "uB4DC">>>>],
    \* 영국령 인도양 식민지
    [country |-> <<"uC601", "uAD6D", "uB839", " ", "uC778", "uB3C4", "uC591", " ", "uC2DD", "uBBFC", "uC9C0">>,
     keywords |-> <<S("british indian ocean territory"), <<"uC601", "uAD6D", "uB839", " ", "uC778", "uB3C4", "uC591", " ", "uC2DD", "uBBFC", "uC9C0">>>>],
    \* 예멘
    [country |-> <<"uC608", "uBA58">>,
     keywords |-> <<S("yemen"), <<"uC608", "uBA58">>>>],
    \* 오만
    [country |-> <<"uC624", "uB9CC">>,
     keywords |-> <<S("oman"), <<"uC624", "uB9CC">>>>],
    \* 오스트레일리아
    [country |-> <<"uC624", "uC2A4", "uD2B8", "uB808", "uC77C", "uB9AC", "uC544">>,
     keywords |-> <<S("australia"), <<"uC624", "uC2A4", "uD2B8", "uB808", "uC77C", "uB9AC", "uC544">>>>],
    \* 오스트리아
    [country |-> <<"uC624", "uC2A4", "uD2B8", "uB9AC", "uC544">>,
     keywords |-> <<S("austria"), <<"uC624", "uC2A4", "uD2B8", "uB9AC", "uC544">>>>],
    \* 온두라스
    [country |-> <<"uC628", "uB450", "uB77C", "uC2A4">>,
     keywords |-> <<S("honduras"), <<"uC628", "uB450", "uB77C", "uC2A4">>>>],
    \* 올란드 제도
    [country |-> <<"uC62C", "uB780", "uB4DC", " ", "uC81C", "uB3C4">>,
     keywords |-> <<<<"u00E5", "l", "a", "n", "d", " ", "i", "s", "l", "a", "n", "d", "s">>, <<"uC62C", "uB780", "uB4DC", " ", "uC81C", "uB3C4">>>>],
    \* 왈리스 푸투나
    [country |-> <<"uC648", "uB9AC", "uC2A4", " ", "uD478", "uD22C", "uB098">>,
     keywords |-> <<S("wallis and futuna"), <<"uC648", "uB9AC", "uC2A4", " ", "uD478", "uD22C", "uB098">>>>],
    \* 요르단
    [country |-> <<"uC694", "uB974", "uB2E8">>,
     keywords |-> <<S("jordan"), <<"uC694", "uB974", "uB2E8">>>>],
    \* 우간다
    [country |-> <<"uC6B0", "uAC04", "uB2E4">>,
     keywords |-> <<S("uganda"), <<"uC6B0", "uAC04", "uB2E4">>>>],
    \* 우루과이
    [country |-> <<"uC6B0", "uB8E8", "uACFC", "uC774">>,
     keywords |-> <<S("uruguay"), <<"uC6B0", "uB8E8", "uACFC", "uC774">>>>],
    \* 우즈베키스탄
    [country |-> <<"uC6B0", "uC988", "uBCA0", "uD0A4", "uC2A4", "uD0C4">>,
     keywords |-> <<S("uzbekistan"), <<"uC6B0", "uC988", "uBCA0", "uD0A4", "uC2A4", "uD0C4">>>>],
    \* 우크라이나
    [country |-> <<"uC6B0", "uD06C", "uB77C", "uC774", "uB098">>,
     keywords |-> <<S("ukraine"), <<"uC6B0", "uD06C", "uB77C", "uC774", "uB098">>>>],
    \* 이라크
    [country |-> <<"uC774", "uB77C", "uD06C">>,
     keywords |-> <<S("iraq"), <<"uC774", "uB77C", "uD06C">>>>],
    \* 이란
    [country |-> <<"uC774", "uB780">>,
     keywords |-> <<S("iran"), <<"uC774", "uB780">>>>],
    \* 이스라엘
    [country |-> <<"uC774", "uC2A4", "uB77C", "uC5D8">>,
     keywords |-> <<S("israel"), <<"uC774", "uC2A4", "uB77C", "uC5D8">>>>],
    \* 이집트
    [country |-> <<"uC774", "uC9D1", "uD2B8">>,
     keywords |-> <<S("egypt"), <<"uC774", "uC9D1", "uD2B8">>>>],
    \* 이탈리아
    [country |-> <<"uC774", "uD0C8", "uB9AC", "uC544">>,
     keywords |-> <<S("italy"), <<"uC774", "uD0C8", "uB9AC", "uC544">>>>],
    \* 인도
    [country |-> <<"uC778", "uB3C4">>,
     keywords |-> <<S("india"), <<"uC778", "uB3C4">>>>],
    \* 인도네시아
    [country |-> <<"uC778", "uB3C4", "uB124", "uC2DC", "uC544">>,
     keywords |-> <<S("indonesia"), <<"uC778", "uB3C4", "uB124", "uC2DC", "uC544">>>>],
    \* 일본
    [country |-> <<"uC77C", "uBCF8">>,
     keywords |-> <<S("japan"), <<"uB3C4", "uCFC4">>, <<"uC77C", "uBCF8">>>>],
    \* 자메이카
    [country |-> <<"uC790", "uBA54", "uC774", "uCE74">>,
     keywords |-> <<S("jamaica"), <<"uC790", "uBA54", "uC774", "uCE74">>>>],
    \* 잠비아
    [country |-> <<"uC7A0", "uBE44", "uC544">>,
     keywords |-> <<S("zambia"), <<"uC7A0", "uBE44", "uC544">>>>],
    \* 저지
    [country |-> <<"uC800", "uC9C0">>,
     keywords |-> <<S("jersey"), <<"uC800", "uC9C0">>>>],
    \* 적도 기니
    [country |-> <<"uC801", "uB3C4", " ", "uAE30", "uB2C8">>,
     keywords |-> <<S("equatorial guinea"), <<"uC801", "uB3C4", " ", "uAE30", "uB2C8">>>>],
    \* 조지아
    [country |-> <<"uC870", "uC9C0", "uC544">>,
     keywords |-> <<S("georgia"), <<"uC870", "uC9C0", "uC544">>>>],
    \* 중국
    [country |-> <<"uC911", "uAD6D">>,
     keywords |-> <<S("china"), <<"uBCA0", "uC774", "uC9D5">>, <<"uC911", "uAD6D">>>>],
    \* 중앙아프리카 공화국
    [country |-> <<"uC911", "uC559", "uC544", "uD504", "uB9AC", "uCE74", " ", "uACF5", "uD654", "uAD6D">>,
     keywords |-> <<S("central african republic"), <<"uC911", "uC559", "uC544", "uD504", "uB9AC", "uCE74", " ", "uACF5", "uD654", "uAD6D">>>>],
    \* 지부티
    [country |-> <<"uC9C0", "uBD80", "uD2F0">>,
     keywords |-> <<S("djibouti"), <<"uC9C0", "uBD80", "uD2F0">>>>],
    \* 지브롤터
    [country |-> <<"uC9C0", "uBE0C", "uB864", "uD130">>,
     keywords |-> <<S("gibraltar"), <<"uC9C0", "uBE0C", "uB864", "uD130">>>>],
    \* 짐바브웨
    [country |-> <<"uC9D0", "uBC14", "uBE0C", "uC6E8">>,
     keywords |-> <<S("zimbabwe"), <<"uC9D0", "uBC14", "uBE0C", "uC6E8">>>>],
    \* 차드
    [country |-> <<"uCC28", "uB4DC">>,
     keywords |-> <<S("chad"), <<"uCC28", "uB4DC">>>>],
    \* 체코
    [country |-> <<"uCCB4", "uCF54">>,
     keywords |-> <<S("czech republic"), <<"uCCB4", "uCF54">>>>],
    \* 칠레
    [country |-> <<"uCE60", "uB808">>,
     keywords |-> <<S("chile"), <<"uCE60", "uB808">>>>],
    \* 카메룬
    [country |-> <<"uCE74", "uBA54", "uB8EC">>,
     keywords |-> <<S("cameroon"), <<"uCE74", "uBA54", "uB8EC">>>>],
    \* 카보베르데
    [country |-> <<"uCE74", "uBCF4", "uBCA0", "uB974", "uB370">>,
     keywords |-> <<S("cape verde"), <<"uCE74", "uBCF4", "uBCA0", "uB974", "uB370">>>>],
    \* 카자흐스탄
    [country |-> <<"uCE74", "uC790", "uD750", "uC2A4", "uD0C4">>,
     keywords |-> <<S("kazakhstan"), <<"uCE74", "uC790", "uD750", "uC2A4", "uD0C4">>>>],
    \* 카타르
    [country |-> <<"uCE74", "uD0C0", "uB974">>,
     keywords |-> <<S("qatar"), <<"uCE74", "uD0C0", "uB974">>>>],
    \* 캄보디아
    [country |-> <<"uCE84", "uBCF4", "uB514", "uC544">>,
     keywords |-> <<S("cambodia"), <<"uCE84", "uBCF4", "uB514", "uC544">>>>],
    \* 캐나다
    [country |-> <<"uCE90", "uB098", "uB2E4">>,
     keywords |-> <<S("canada"), <<"uCE90", "uB098", "uB2E4">>>>],
    \* 케냐
    [country |-> <<"uCF00", "uB0D0">>,
     keywords |-> <<S("kenya"), <<"uCF00", "uB0D0">>>>],
    \* 케이맨제도
    [country |-> <<"uCF00", "uC774", "uB9E8", "uC81C", "uB3C4">>,
     keywords |-> <<S("cayman islands"), <<"uCF00", "uC774", "uB9E8", "uC81C", "uB3C4">>>>],
    \* 코모로
    [country |-> <<"uCF54", "uBAA8", "uB85C">>,
     keywords |-> <<S("comoros"), <<"uCF54", "uBAA8", "uB85C">>>>],
    \* 코스타리카
    [country |-> <<"uCF54", "uC2A4", "uD0C0", "uB9AC", "uCE74">>,
     keywords |-> <<S("costa rica"), <<"uCF54", "uC2A4", "uD0C0", "uB9AC", "uCE74">>>>],
    \* 코코스 제도
    [country |-> <<"uCF54", "uCF54", "uC2A4", " ", "uC81C", "uB3C4">>,
     keywords |-> <<S("cocos (keeling) islands"), <<"uCF54", "uCF54", "uC2A4", " ", "uC81C", "uB3C4">>>>],
    \* 코트디부아르
    [country |-> <<"uCF54", "uD2B8", "uB514", "uBD80", "uC544", "uB974">>,
     keywords |-> <<<<"i", "v", "o", "r", "y", " ", "c", "o", "a", "s", "t", " ", "(", "c", "u00F4", "t", "e", " ", "d", "'", "i", "v", "o", "i", "r", "e", ")">>, <<"uCF54", "uD2B8", "uB514", "uBD80", "uC544", "uB974">>>>],
    \* 콜롬비아
    [country |-> <<"uCF5C", "uB86C", "uBE44", "uC544">>,
     keywords |-> <<S("colombia"), <<"uCF5C", "uB86C", "uBE44", "uC544">>>>],
    \* 콩고 공화국
    [country |-> <<"uCF69", "uACE0", " ", "uACF5", "uD654", "uAD6D">>,
     keywords |-> <<S("congo (republic)"), <<"uCF69", "uACE0", " ", "uACF5", "uD654", "uAD6D">>>>],
    \* 콩고 민주 공화국
    [country |-> <<"uCF69", "uACE0", " ", "uBBFC", "uC8FC", " ", "uACF5", "uD654", "uAD6D">>,
     keywords |-> <<S("congo (democratic republic of)"), <<"uCF69", "uACE0", " ", "uBBFC", "uC8FC", " ", "uACF5", "uD654", "uAD6D">>>>],
    \* 쿠바
    [country |-> <<"uCFE0", "uBC14">>,
     keywords |-> <<S("cuba"), <<"uCFE0", "uBC14">>>>],
    \* 쿠웨이트
    [country |-> <<"uCFE0", "uC6E8", "uC774", "uD2B8">>,
     keywords |-> <<S("kuwait"), <<"uCFE0", "uC6E8", "uC774", "uD2B8">>>>],
    \* 쿡 제도
    [country |-> <<"uCFE1", " ", "uC81C", "uB3C4">>,
     keywords |-> <<S("cook islands"), <<"uCFE1", " ", "uC81C", "uB3C4">>>>],
    \* 퀴라소
    [country |-> <<"uD034", "uB77C", "uC18C">>,
     keywords |-> <<<<"c", "u", "r", "a", "u00E7", "a", "o">>, <<"uD034", "uB77C", "uC18C">>>>],
    \* 크로아티아
    [country |-> <<"uD06C", "uB85C", "uC544", "uD2F0", "uC544">>,
     keywords |-> <<S("croatia"), <<"uD06C", "uB85C", "uC544", "uD2F0", "uC544">>>>],
    \* 크리스마스 섬
    [country |-> <<"uD06C", "uB9AC", "uC2A4", "uB9C8", "uC2A4", " ", "uC12C">>,
     keywords |-> <<S("christmas island"), <<"uD06C", "uB9AC", "uC2A4", "uB9C8", "uC2A4", " ", "uC12C">>>>],
    \* 키르기스스탄
    [country |-> <<"uD0A4", "uB974", "uAE30", "uC2A4", "uC2A4", "uD0C4">>,
     keywords |-> <<S("kyrgyzstan"), <<"uD0A4", "uB974", "uAE30", "uC2A4", "uC2A4", "uD0C4">>>>],
    \* 키리바시
    [country |-> <<"uD0A4", "uB9AC", "uBC14", "uC2DC">>,
     keywords |-> <<S("kiribati"), <<"uD0A4", "uB9AC", "uBC14", "uC2DC">>>>],
    \* 키프로스
    [country |-> <<"uD0A4", "uD504", "uB85C", "uC2A4">>,
     keywords |-> <<S("cyprus"), <<"uD0A4", "uD504", "uB85C", "uC2A4">>>>],
    \* 타지키스탄
    [country |-> <<"uD0C0", "uC9C0", "uD0A4", "uC2A4", "uD0C4">>,
     keywords |-> <<S("tajikistan"), <<"uD0C0", "uC9C0", "uD0A4", "uC2A4", "uD0C4">>>>],
    \* 탄자니아
    [country |-> <<"uD0C4", "uC790", "uB2C8", "uC544">>,
     keywords |-> <<S("tanzania"), <<"uD0C4", "uC790", "uB2C8", "uC544">>>>],
    \* 태국
    [country |-> <<"uD0DC", "uAD6D">>,
     keywords |-> <<S("thailand"), <<"uD0DC", "uAD6D">>>>],
    \* 터크스 케이커스 제도
    [country |-> <<"uD130", "uD06C", "uC2A4", " ", "uCF00", "uC774", "uCEE4", "uC2A4", " ", "uC81C", "uB3C4">>,
     keywords |-> <<S("turks and caicos islands"), <<"uD130", "uD06C", "uC2A4", " ", "uCF00", "uC774", "uCEE4", "uC2A4", " ", "uC81C", "uB3C4">>>>],
    \* 토고
    [country |-> <<"uD1A0", "uACE0">>,
     keywords |-> <<S("togo"), <<"uD1A0", "uACE0">>>>],
    \* 토켈라우
    [country |-> <<"uD1A0", "uCF08", "uB77C", "uC6B0">>,
     keywords |-> <<S("tokelau"), <<"uD1A0", "uCF08", "uB77C", "uC6B0">>>>],
    \* 통가
    [country |-> <<"uD1B5", "uAC00">>,
     keywords |-> <<S("tonga"), <<"uD1B5", "uAC00">>>>],
    \* 투르크메니스탄
    [country |-> <<"uD22C", "uB974", "uD06C", "uBA54", "uB2C8", "uC2A4", "uD0C4">>,
     keywords |-> <<S("turkmenistan"), <<"uD22C", "uB974", "uD06C", "uBA54", "uB2C8", "uC2A4", "uD0C4">>>>],
    \* 투발루
    [country |-> <<"uD22C", "uBC1C", "uB8E8">>,
     keywords |-> <<S("tuvalu"), <<"uD22C", "uBC1C", "uB8E8">>>>],
    \* 튀니지
    [country |-> <<"uD280", "uB2C8", "uC9C0">>,
     keywords |-> <<S("tunisia"), <<"uD280", "uB2C8", "uC9C0">>>>],
    \* 튀르키예
    [country |-> <<"uD280", "uB974", "uD0A4", "uC608">>,
     keywords |-> <<S("turkey"), <<"uD280", "uB974", "uD0A4", "uC608">>>>],
    \* 트리니다드 토바고
    [country |-> <<"uD2B8", "uB9AC", "uB2C8", "uB2E4", "uB4DC", " ", "uD1A0", "uBC14", "uACE0">>,
     keywords |-> <<S("trinidad and tobago"), <<"uD2B8", "uB9AC", "uB2C8", "uB2E4", "uB4DC", " ", "uD1A0", "uBC14", "uACE0">>>>],
    \* 파나마
    [country |-> <<"uD30C", "uB098", "uB9C8">>,
     keywords |-> <<S("panama"), <<"uD30C", "uB098", "uB9C8">>>>],
    \* 파라과이
    [country |-> <<"uD30C", "uB77C", "uACFC", "uC774">>,
     keywords |-> <<S("paraguay"), <<"uD30C", "uB77C", "uACFC", "uC774">>>>],
    \* 파키스탄
    [country |-> <<"uD30C", "uD0A4", "uC2A4", "uD0C4">>,
     keywords |-> <<S("pakistan"), <<"uD30C", "uD0A4", "uC2A4", "uD0C4">>>>],
    \* 파푸아뉴기니
    [country |-> <<"uD30C", "uD478", "uC544", "uB274", "uAE30", "uB2C8">>,
     keywords |-> <<S("papua new guinea"), <<"uD30C", "uD478", "uC544", "uB274", "uAE30", "uB2C8">>>>],
    \* 팔라우
    [country |-> <<"uD314", "uB77C", "uC6B0">>,
     keywords |-> <<S("palau"), <<"uD314", "uB77C", "uC6B0">>>>],
    \* 팔레스타인
    [country |-> <<"uD314", "uB808", "uC2A4", "uD0C0", "uC778">>,
     keywords |-> <<S("palestine"), <<"uD314", "uB808", "uC2A4", "uD0C0", "uC778">>>>],
    \* 페로 제도
    [country |-> <<"uD398", "uB85C", " ", "uC81C", "uB3C4">>,
     keywords |-> <<S("faroe islands"), <<"uD398", "uB85C", " ", "uC81C", "uB3C4">>>>],
    \* 페루
    [country |-> <<"uD398", "uB8E8">>,
     keywords |-> <<S("peru"), <<"uD398", "uB8E8">>>>],
    \* 포르투갈
    [country |-> <<"uD3EC", "uB974", "uD22C", "uAC08">>,
     keywords |-> <<S("portugal"), <<"uD3EC", "uB974", "uD22C", "uAC08">>>>],
    \* 포클랜드 제도
    [country |-> <<"uD3EC", "uD074", "uB79C", "uB4DC", " ", "uC81C", "uB3C4">>,
     keywords |-> <<S("falkland islands"), <<"uD3EC", "uD074", "uB79C", "uB4DC", " ", "uC81C", "uB3C4">>>>],
    \* 폴란드
    [country |-> <<"uD3F4", "uB780", "uB4DC">>,
     keywords |-> <<S("poland"), <<"uD3F4", "uB780", "uB4DC">>>>],
    \* 푸에르토리코
    [country |-> <<"uD478", "uC5D0", "uB974", "uD1A0", "uB9AC", "uCF54">>,
     keywords |-> <<S("puerto rico"), <<"uD478", "uC5D0", "uB974", "uD1A0", "uB9AC", "uCF54">>>>],
    \* 프랑스
    [country |-> <<"uD504", "uB791", "uC2A4">>,
     keywords |-> <<S("france"), <<"uD30C", "uB9AC">>, <<"uD504", "uB791", "uC2A4">>>>],
    \* 프랑스령 기아나
    [country |-> <<"uD504", "uB791", "uC2A4", "uB839", " ", "uAE30", "uC544", "uB098">>,
     keywords |-> <<S("french guiana"), <<"uD504", "uB791", "uC2A4", "uB839", " ", "uAE30", "uC544", "uB098">>>>],
    \* 프랑스령 폴리네시아
    [country |-> <<"uD504", "uB791", "uC2A4", "uB839", " ", "uD3F4", "uB9AC", "uB124", "uC2DC", "uC544">>,
     keywords |-> <<S("french polynesia"), <<"uD504", "uB791", "uC2A4", "uB839", " ", "uD3F4", "uB9AC", "uB124", "uC2DC", "uC544">>>>],
    \* 피지
    [country |-> <<"uD53C", "uC9C0">>,
     keywords |-> <<S("fiji"), <<"uD53C", "uC9C0">>>>],
    \* 핀란드
    [country |-> <<"uD540", "uB780", "uB4DC">>,
     keywords |-> <<S("finland"), <<"uD540", "uB780", "uB4DC">>>>],
    \* 필리핀
    [country |-> <<"uD544", "uB9AC", "uD540">>,
     keywords |-> <<S("philippines"), <<"uD544", "uB9AC", "uD540">>>>],
    \* 핏케언 제도
    [country |-> <<"uD54F", "uCF00", "uC5B8", " ", "uC81C", "uB3C4">>,
     keywords |-> <<S("pitcairn islands"), <<"uD54F", "uCF00", "uC5B8", " ", "uC81C", "uB3C4">>>>],
    \* 헝가리
    [country |-> <<"uD5DD", "uAC00", "uB9AC">>,
     keywords |-> <<S("hungary"), <<"uD5DD", "uAC00", "uB9AC">>>>],
    \* 홍콩
    [country |-> <<"uD64D", "uCF69">>,
     keywords |-> <<S("hong kong"), <<"uD64D", "uCF69">>>>]
>>

\* the catch-all label: "other"
OtherCountry == <<"uAE30", "uD0C0">>

\* for country, keywords in mapping.items(), over the entries lo..hi: the
\* index of the first entry with a keyword in the text, 0 when the loop ends
\* without one.  The range is scanned in order, first half first (split in
\* halves only to keep the evaluation shallow).
RECURSIVE first_country_match(_, _, _)
first_country_match(lo, hi, text_to_search) ==
    IF lo = hi
    THEN IF any_in(CountryMapping[lo].keywords, text_to_search) THEN lo ELSE 0
    ELSE LET mid == (lo + hi) \div 2
             first == first_country_match(lo, mid, text_to_search)
         IN  IF first # 0 THEN first
             ELSE first_country_match(mid + 1, hi, text_to_search)

\* extract_country returning the entry with the most keywords in the text
\* (best match) instead of the first one
extract_country_best_match(text, title) ==
    LET text_to_search == lower(title \o S(" ") \o text)
        n(i) == Cardinality({k \in 1..Len(CountryMapping[i].keywords) :
                    Contains(CountryMapping[i].keywords[k], text_to_search)})
        hits == {i \in 1..Len(CountryMapping) : n(i) > 0}
    IN  IF hits = {} THEN OtherCountry
        ELSE CountryMapping[CHOOSE i \in hits :
                \A j \in hits : n(i) > n(j) \/ (n(i) = n(j) /\ i <= j)].country

extract_country(text, title) ==
    LET text_to_search == lower(title \o S(" ") \o text)
        i == first_country_match(1, Len(CountryMapping), text_to_search)
    IN  IF i # 0 THEN CountryMapping[i].country ELSE OtherCountry

----------------------------------------------------------------------------
(* More Python primitives used by extract.py *)

\* the characters in ascending code point order: printable ASCII, then the
\* Hangul syllables of the relevance keywords
CodePoints ==
    S(" !#$%&'()*+,-./0123456789:;<=>?@") \o UpperCase \o S("[]^_") \o LowerCase
    \o S("{|}~")
    \o <<"uAC00", "uAC70", "uAD8C", "uADDC", "uAE30", "uB10C", "uB4DC", "uB77C", "uB9AC",
        "uBC84", "uBC95", "uBCF8", "uC0B0", "uC2A4", "uC2DD", "uC724", "uC774", "uC778",
        "uC784", "uC791", "uC7AC", "uC800", "uC815", "uC81C", "uC9C0", "uCC45">>

ord(c) == CHOOSE i \in 1..Len(CodePoints) : CodePoints[i] = c

\* a < b on str: lexicographic by code point
str_lt(a, b) ==
    \E i \in 1..(Min(Len(a), Len(b)) + 1) :
        /\ \A j \in 1..(i - 1) : a[j] = b[j]
        /\ i <= Len(b)
        /\ (i <= Len(a) => ord(a[i]) < ord(b[i]))

\* sorted(list(xs)) for a set xs of str
RECURSIVE sorted(_)
sorted(xs) ==
    IF xs = {} THEN <<>>
    ELSE LET least == CHOOSE x \in xs : \A y \in xs \ {x} : str_lt(x, y)
         IN  <<least>> \o sorted(xs \ {least})

\* set(xs) for a list xs
set_of(xs) == {xs[i] : i \in 1..Len(xs)}

Whitespace == {" ", "\t", "\n", "\r"}

\* str.strip()
strip(s) ==
    LET keep == {i \in 1..Len(s) : s[i] \notin Whitespace}
    IN  IF keep = {} THEN <<>>
        ELSE SubSeq(s, CHOOSE i \in keep : \A j \in keep : i <= j,
                       CHOOSE i \in keep : \A j \in keep : i >= j)

\* sep.join(xs)
RECURSIVE join(_, _)
join(sep, xs) ==
    IF xs = <<>> THEN <<>>
    ELSE IF Len(xs) = 1 THEN xs[1]
    ELSE xs[1] \o sep \o join(sep, Tail(xs))

\* s.split(c) for a one-character separator c
split(s, c) ==
    LET cuts == {i \in 1..Len(s) : s[i] = c}
        \* the end of the piece that starts after position p
        stop(p) == IF \E i \in cuts : i > p
                   THEN (CHOOSE i \in cuts : i > p /\ \A j \in cuts : j > p => i <= j)
                   ELSE Len(s) + 1
        starts == {0} \cup cuts
        \* the k-th start, in increasing order
        nth(k) == CHOOSE p \in starts : Cardinality({q \in starts : q < p}) = k - 1
    IN  [k \in 1..Cardinality(starts) |-> SubSeq(s, nth(k) + 1, stop(nth(k)) - 1)]

\* d.get(k, default) for a dict d
dict_get(d, k, default) == IF k \in DOMAIN d THEN d[k] ELSE default

\* {}
EmptyDict == <<>>

----------------------------------------------------------------------------
(* datetime: <<year, month, day, hour>> in UTC; date: <<year, month, day>> *)

IsLeap(y) == (y % 4 = 0 /\ y % 100 # 0) \/ y % 400 = 0

DaysInMonth(y, mo) ==
    IF mo = 2 THEN (IF IsLeap(y) THEN 28 + 1 ELSE 28)
    ELSE IF mo \in {4, 6, 9, 11} THEN 30 ELSE 31

\* dt - timedelta(days=1)
day_before(dt) ==
    IF dt[3] > 1 THEN <<dt[1], dt[2], dt[3] - 1, dt[4]>>
    ELSE IF dt[2] > 1 THEN <<dt[1], dt[2] - 1, DaysInMonth(dt[1], dt[2] - 1), dt[4]>>
    ELSE <<dt[1] - 1, 12, 31, dt[4]>>

\* dt - timedelta(days=n)
RECURSIVE minus_days(_, _)
minus_days(dt, n) == IF n = 0 THEN dt ELSE minus_days(day_before(dt), n - 1)

\* a < b on aware datetimes
datetime_lt(a, b) ==
    \E i \in 1..4 : (\A j \in 1..(i - 1) : a[j] = b[j]) /\ a[i] < b[i]

\* the decimal digits of n, zero-padded to the given width
RECURSIVE zero_padded(_, _)
zero_padded(n, width) ==
    IF width = 0 THEN <<>>
    ELSE zero_padded(n \div 10, width - 1) \o <<S("0123456789")[(n % 10) + 1]>>

\* dt.date().isoformat()
date_isoformat(dt) ==
    zero_padded(dt[1], 4) \o S("-") \o zero_padded(dt[2], 2) \o S("-")
    \o zero_padded(dt[3], 2)

----------------------------------------------------------------------------
(* Entity extractor, continued: extract.py *)

\* fetch_page_text: resp is the outcome of requests.get and of the markup
\* stripping, [ok, text, url]; ok = FALSE is any exception (timeout,
\* transport error, non-2xx status)
fetch_page_text(url, resp) ==
    IF resp.ok
    THEN [text |-> resp.text, final_url |-> strip(str_or(resp.url, url))]
    ELSE [text |-> <<>>, final_url |-> url]

\* enrich_from_known over the entries from the i-th on
RECURSIVE enrich_from(_, _, _)
enrich_from(i, hay, known) ==
    IF i > Len(known) THEN EmptyDict
    ELSE LET entry == known[i]
             terms == dict_get(dict_get(entry, "match", EmptyDict), "any", <<>>)
             any_terms == [t \in 1..Len(terms) |-> lower(terms[t])]
         IN  IF any_terms # <<>> /\ any_in(any_terms, hay)
             THEN dict_get(entry, "enrich", EmptyDict)
             ELSE enrich_from(i + 1, hay, known)

\* enrich_from_known that keeps looking after a hit: the payload of the last
\* matching entry
enrich_from_last_match(text, title, known) ==
    LET hay == lower(title \o <<"\n">> \o text)
        terms(i) == dict_get(dict_get(known[i], "match", EmptyDict), "any", <<>>)
        hits == {i \in 1..Len(known) :
                    \E t \in 1..Len(terms(i)) : Contains(lower(terms(i)[t]), hay)}
    IN  IF hits = {} THEN EmptyDict
        ELSE dict_get(known[CHOOSE i \in hits : \A j \in hits : i >= j],
                      "enrich", EmptyDict)

enrich_from_known(text, title, known) ==
    enrich_from(1, lower(title \o <<"\n">> \o text), known)

\* extract_regulation_subject with the copyright check moved to the front of
\* the cascade
extract_subject_copyright_first(text, title) ==
    LET text_to_search == lower(title \o S(" ") \o text)
        has(k) == Contains(k, text_to_search)
    IN  IF has(S("copyright")) \/ has(<<"uC800", "uC791", "uAD8C">>)
        THEN (S("AI ") \o <<"uC800", "uC791", "uAD8C", " ", "uAC00", "uC774", "uB4DC", "uB77C", "uC778">>)
        ELSE IF has(S("eu ai act")) \/ has(<<"uC720", "uB7FD", "uC5F0", "uD569">>)
                \/ has(S("european union"))
        THEN S("EU AI Act")
        ELSE IF has(<<"uAE30", "uBCF8", "uBC95">>)
                \/ has(<<"uB300", "uD55C", "uBBFC", "uAD6D">>) \/ has(S("korea"))
        THEN (S("AI ") \o <<"uAE30", "uBCF8", "uBC95">> \o S(" (KR)"))
        ELSE IF has(S("california")) \/ has(S("sb 1047"))
        THEN S("California AI Safety Bill")
        ELSE <<"uAD6D", "uB0B4", "uC678", " ", "uADDC", "uC81C", " ", "uB3D9", "uD5A5">>

extract_regulation_subject(text, title) ==
    LET text_to_search == lower(title \o S(" ") \o text)
        has(k) == Contains(k, text_to_search)
    IN  IF has(S("eu ai act")) \/ has(<<"uC720", "uB7FD", "uC5F0", "uD569">>)
           \/ has(S("european union"))
        THEN S("EU AI Act")
        ELSE IF has(<<"uAE30", "uBCF8", "uBC95">>)
                \/ has(<<"uB300", "uD55C", "uBBFC", "uAD6D">>) \/ has(S("korea"))
        THEN (S("AI ") \o <<"uAE30", "uBCF8", "uBC95">> \o S(" (KR)"))
        ELSE IF has(S("copyright")) \/ has(<<"uC800", "uC791", "uAD8C">>)
        THEN (S("AI ") \o <<"uC800", "uC791", "uAD8C", " ", "uAC00", "uC774", "uB4DC", "uB77C", "uC778">>)
        ELSE IF has(S("california")) \/ has(S("sb 1047"))
        THEN S("California AI Safety Bill")
        ELSE <<"uAD6D", "uB0B4", "uC678", " ", "uADDC", "uC81C", " ", "uB3D9", "uD5A5">>

\* the canned sentences of reason_heuristic
ReasonCopyright ==
    (S("AI ") \o <<"uD559", "uC2B5", " ", "uB370", "uC774", "uD130", "uC5D0", " ", "uB300", "uD55C", " ", "uC800", "uC791", "uAD8C", " ", "uAC00", "uC774", "uB4DC", "uB77C", "uC778", " ", "uB610", "uB294", " ", "uC9C0", "uC2DD", "uC7AC", "uC0B0", "uAD8C", " ", "uBCF4", "uD638", " ", "uC870", "uCE58", " ", "uAD00", "uB828", " ", "uC815", "uBCF4", ".">>)
ReasonGovernance ==
    (S("AI ") \o <<"uC724", "uB9AC", " ", "uC900", "uC218", " ", "uBC0F", " ", "uAC70", "uBC84", "uB10C", "uC2A4", " ", "uCCB4", "uACC4", " ", "uAD6C", "uCD95", "uC744", " ", "uC704", "uD55C", " ", "uC815", "uCC45", " ", "uAC00", "uC774", "uB4DC", "uB77C", "uC778", " ", "uB610", "uB294", " ", "uADDC", "uC81C", " ", "uD504", "uB808", "uC784", "uC6CC", "uD06C", ".">>)
ReasonAct ==
    (S("EU AI Act ") \o <<"uB610", "uB294", " ", "uC774", "uC5D0", " ", "uC900", "uD558", "uB294", " ", "uACE0", "uAC15", "uB3C4">> \o S(" AI ") \o <<"uADDC", "uC81C", " ", "uBC95", "uC548", "uC758", " ", "uC9C4", "uCC99", " ", "uBC0F", " ", "uB300", "uC751", " ", "uD544", "uC694", " ", "uC0AC", "uD56D", ".">>)
ReasonDefault ==
    (<<"uAD6D", "uB0B4", "uC678">> \o S(" AI ") \o <<"uADDC", "uC81C", " ", "uBC95", "uC81C", "uD654", ",", " ", "uAC00", "uC774", "uB4DC", "uB77C", "uC778", " ", "uBC30", "uD3EC", " ", "uBC0F", " ", "uC815", "uCC45", " ", "uB3D9", "uD5A5", " ", "uAD00", "uB828", " ", "uCD5C", "uC2E0", " ", "uC815", "uBCF4", ".">>)

reason_heuristic(hay) ==
    LET h == lower(hay)
        has(k) == Contains(k, h)
    IN  IF has(S("copyright")) \/ has(<<"uC800", "uC791", "uAD8C">>) THEN ReasonCopyright
        ELSE IF has(S("governance")) \/ has(S("policy"))
                \/ has(<<"uAC70", "uBC84", "uB10C", "uC2A4">>) \/ has(<<"uC815", "uCC45">>)
        THEN ReasonGovernance
        ELSE IF has(S("ai act")) \/ has(S("eu")) THEN ReasonAct
        ELSE ReasonDefault

----------------------------------------------------------------------------
(* Record builder and merger: build_regulations_from_news, extract.py *)

\* keywords: the relevance keyword list
RelevanceKeywords == <<
    S("regulation"), S("governance"), S("act"), S("policy"), S("bill"), S("copyright"),
    S("dispute"), S("legal"), S("intellectual property"), S("framework"),
    S("safety summit"), S("guideline"), S("ethics"),
    <<"uADDC", "uC81C">>, <<"uAC70", "uBC84", "uB10C", "uC2A4">>, <<"uAE30", "uBCF8", "uBC95">>, <<"uC815", "uCC45">>,
    <<"uAC00", "uC774", "uB4DC", "uB77C", "uC778">>, <<"uC800", "uC791", "uAD8C">>, <<"uCC45", "uC784", "uBC95">>, <<"uC724", "uB9AC">>,
    <<"uC9C0", "uC2DD", "uC7AC", "uC0B0", "uAD8C">>>>

\* None
None == <<>>

\* cutoff = datetime.now(timezone.utc) - timedelta(days=lookback_days)
cutoff_of(now_utc, days) == minus_days(now_utc, days)

\* the date test with <= for <: an item published exactly at the cutoff is
\* dropped too
too_old_inclusive(item, cutoff) ==
    /\ item.published_at # None
    /\ (datetime_lt(item.published_at, cutoff) \/ item.published_at = cutoff)

\* item.published_at and item.published_at < cutoff
too_old(item, cutoff) ==
    /\ item.published_at # None
    /\ datetime_lt(item.published_at, cutoff)

\* found = [k for k in keywords if k.lower() in lower]
found_keywords(hay) ==
    LET lower_hay == lower(hay)
    IN  SelectSeq(RelevanceKeywords, LAMBDA k : Contains(lower(k), lower_hay))

NotApplicable == S("N/A")

\* the RegulationInfo appended for an item that passed the three filters;
\* now_utc is the clock read when published_at is None
new_record(item, text, final_url, known, now_utc) ==
    LET hay == item.title \o S(" ") \o text
        enrich == enrich_from_known(text, item.title, known)
        article_title == item.title
        published == IF item.published_at # None THEN item.published_at ELSE now_utc
    IN  [update_or_filed_date |-> date_isoformat(published),
         country |-> str_or(dict_get(enrich, "country", None),
                            extract_country(text, article_title)),
         case_title |-> str_or(dict_get(enrich, "case_title", None),
                               extract_regulation_subject(text, article_title)),
         article_title |-> article_title,
         case_number |-> str_or(dict_get(enrich, "case_number", None), NotApplicable),
         reason |-> dict_get(enrich, "reason", reason_heuristic(hay)),
         article_urls |-> sorted({final_url, item.url}),
         matched_keywords |-> join(S(", "), found_keywords(hay))]

\* key = (r.case_number, r.country, r.case_title, r.article_title)
merge_key(r) == <<r.case_number, r.country, r.case_title, r.article_title>>

\* [x.strip() for x in s.split(",") if x.strip()]
keyword_list(s) ==
    LET parts == split(s, ",")
        stripped == [k \in 1..Len(parts) |-> strip(parts[k])]
    IN  SelectSeq(stripped, LAMBDA x : x # <<>>)

\* fold_into without the date update: the retained record keeps its own date
fold_into_keeps_date(m, r) ==
    [m EXCEPT
        !.article_urls = sorted(set_of(m.article_urls \o r.article_urls)),
        !.matched_keywords =
            join(S(", "), sorted(set_of(keyword_list(m.matched_keywords)
                                        \o keyword_list(r.matched_keywords))))]

\* fold_into that retains the later member: the merged URLs, date and
\* keywords are stored on r, which replaces m
fold_into_keeps_later(m, r) ==
    [r EXCEPT
        !.article_urls = sorted(set_of(m.article_urls \o r.article_urls)),
        !.update_or_filed_date =
            IF str_lt(m.update_or_filed_date, r.update_or_filed_date)
            THEN r.update_or_filed_date ELSE m.update_or_filed_date,
        !.matched_keywords =
            join(S(", "), sorted(set_of(keyword_list(m.matched_keywords)
                                        \o keyword_list(r.matched_keywords))))]

\* the else branch of the merge loop: r folded into the retained record m
fold_into(m, r) ==
    [m EXCEPT
        !.article_urls = sorted(set_of(m.article_urls \o r.article_urls)),
        !.update_or_filed_date =
            IF str_lt(m.update_or_filed_date, r.update_or_filed_date)
            THEN r.update_or_filed_date ELSE @,
        !.matched_keywords =
            join(S(", "), sorted(set_of(keyword_list(m.matched_keywords)
                                        \o keyword_list(r.matched_keywords))))]

\* merge_one with the else lost and the URL lists concatenated without set():
\* a record with a new key is stored and then extended with its own URLs
merge_one_extends_new(merged_so_far, r) ==
    IF \E k \in 1..Len(merged_so_far) : merge_key(merged_so_far[k]) = merge_key(r)
    THEN LET k == CHOOSE k \in 1..Len(merged_so_far) :
                      merge_key(merged_so_far[k]) = merge_key(r)
         IN  [merged_so_far EXCEPT ![k] = fold_into(@, r)]
    ELSE Append(merged_so_far, [r EXCEPT !.article_urls = @ \o r.article_urls])

\* one iteration of "for r in results": merged is the dict's values in
\* insertion order
merge_one(merged_so_far, r) ==
    IF \E k \in 1..Len(merged_so_far) : merge_key(merged_so_far[k]) = merge_key(r)
    THEN LET k == CHOOSE k \in 1..Len(merged_so_far) :
                      merge_key(merged_so_far[k]) = merge_key(r)
         IN  [merged_so_far EXCEPT ![k] = fold_into(@, r)]
    ELSE Append(merged_so_far, r)

\* the merge loop over the first n records of rs
RECURSIVE merge_first(_, _)
merge_first(rs, n) ==
    IF n = 0 THEN <<>> ELSE merge_one(merge_first(rs, n - 1), rs[n])

\* the merge pass: list(merged.values())
merge_pass(rs) == merge_first(rs, Len(rs))

----------------------------------------------------------------------------
(* Docket summariser: courtlistener.py.  A JSON answer is written with its
   kind: NoJson when _get returned None (401/403, any other HTTP error, a
   timeout or transport error), otherwise a mapping (a function from keys
   to values) or a list.  A str value is a tuple of characters; None and ""
   are both written <<>>: both are falsy and _safe_str sends both to "". *)

NoJson == [kind |-> "none", items |-> <<>>]
JsonMapping(f) == [kind |-> "mapping", items |-> f]
JsonList(xs) == [kind |-> "list", items |-> xs]

\* not x, for x the answer of _get: None, {} and [] are falsy
falsy(x) == x.kind = "none" \/ x.items = <<>>

\* the unconfirmed sentinel
Sentinel == <<"uBBF8", "uD655", "uC778">>

BASE == S("https://www.courtlistener.com")

\* COURT_URL.format(id=court_id)
COURT_URL(id) == BASE \o S("/api/rest/v4/courts/") \o id \o S("/")

\* (str(x).strip() if x is not None else "")
_safe_str(x) == IF x = None THEN <<>> ELSE strip(x)

\* d.get(k1) or d.get(k2) or ...: the first truthy value, the last
\* operand when none is truthy
get_or(d, keys) ==
    LET hits == {i \in 1..Len(keys) : dict_get(d, keys[i], None) # <<>>}
    IN  IF hits = {} THEN dict_get(d, keys[Len(keys)], None)
        ELSE dict_get(d, keys[CHOOSE i \in hits : \A j \in hits : i <= j], None)

\* s[:n]
prefix(s, n) == SubSeq(s, 1, Min(n, Len(s)))

CaseNameKeys == <<"case_name", "caseName">>
DocketNumberKeys == <<"docket_number", "docketNumber">>
CourtKeys == <<"court", "court_id", "courtId">>
DateFiledKeys == <<"date_filed", "dateFiled">>
DateTerminatedKeys == <<"date_terminated", "dateTerminated">>
JudgeKeys == <<"assigned_to_str", "assignedToStr", "assigned_to", "assignedTo">>
MagistrateKeys == <<"referred_to_str", "referredToStr", "referred_to", "referredTo">>
NatureOfSuitKeys == <<"nature_of_suit", "natureOfSuit">>
CauseKeys == <<"cause">>
PartyNameKeys == <<"name", "party_name", "partyName">>
PartyTypeKeys == <<"party_type", "partyType", "role">>

StatusOpen == <<"uC9C4", "uD589", "uC911", "/", "uBBF8", "uD655", "uC778">>

\* f"종결({term[:10]})"
StatusClosed(term) == <<"uC885", "uACB0", "(">> \o prefix(term, 10) \o S(")")

_status_from_docket(docket) ==
    LET term == _safe_str(get_or(docket, DateTerminatedKeys))
    IN  IF term # <<>> THEN StatusClosed(term) ELSE StatusOpen

\* the answer of the court request: None stands for a status other than
\* 200 or an exception inside the try block
fetch_court_metadata(court_id, resp) ==
    IF court_id = <<>> \/ court_id = Sentinel THEN <<Sentinel, <<>>>>
    ELSE LET url == COURT_URL(court_id)
             short_name == dict_get(resp.items, "short_name", None)
         IN  IF resp.kind # "mapping" THEN <<court_id, url>>
             ELSE <<IF short_name # <<>> THEN short_name ELSE court_id, url>>

max_n == 12

Ellipsis == <<"u2026">>

\* what one party adds to names: f"{nm}({typ})", nm, or nothing
party_label(p) ==
    LET nm == _safe_str(get_or(p, PartyNameKeys))
        typ == _safe_str(get_or(p, PartyTypeKeys))
    IN  IF nm = <<>> THEN <<>>
        ELSE IF typ # <<>> THEN nm \o S("(") \o typ \o S(")") ELSE nm

_format_parties(parties) ==
    LET shown == SubSeq(parties, 1, Min(max_n, Len(parties)))
        labels == [i \in 1..Len(shown) |-> party_label(shown[i])]
        names == SelectSeq(labels, LAMBDA l : l # <<>>)
    IN  IF names = <<>> THEN Sentinel
        ELSE join(S("; "), IF Len(parties) > max_n THEN Append(names, Ellipsis)
                           ELSE names)

\* parties[:max_n] of the parties answer: a non-empty mapping cannot be
\* sliced and the call ends in an exception
parties_raise(parties_answer) ==
    ~falsy(parties_answer) /\ parties_answer.kind = "mapping"

\* the CLCaseSummary the call returns for a truthy id when nothing is raised
build_case_summary_from_docket_id(id, docket_answer, court_answer, parties_answer) ==
    LET docket == IF falsy(docket_answer) THEN EmptyDict ELSE docket_answer.items
        or_sentinel(s) == IF s # <<>> THEN s ELSE Sentinel
        court_id == or_sentinel(_safe_str(get_or(docket, CourtKeys)))
        court_meta == fetch_court_metadata(court_id, court_answer)
        parties == IF falsy(parties_answer) THEN <<>> ELSE parties_answer.items
    IN  [docket_id |-> id,
         case_name |-> or_sentinel(_safe_str(get_or(docket, CaseNameKeys))),
         docket_number |-> or_sentinel(_safe_str(get_or(docket, DocketNumberKeys))),
         court |-> court_id,
         court_short_name |-> court_meta[1],
         court_api_url |-> court_meta[2],
         date_filed |-> or_sentinel(prefix(_safe_str(get_or(docket, DateFiledKeys)), 10)),
         status |-> _status_from_docket(docket),
         judge |-> or_sentinel(_safe_str(get_or(docket, JudgeKeys))),
         magistrate |-> or_sentinel(_safe_str(get_or(docket, MagistrateKeys))),
         nature_of_suit |-> or_sentinel(_safe_str(get_or(docket, NatureOfSuitKeys))),
         cause |-> or_sentinel(_safe_str(get_or(docket, CauseKeys))),
         parties |-> _format_parties(parties),
         complaint_doc_no |-> Sentinel,
         complaint_link |-> <<>>,
         recent_updates |-> Sentinel,
         extracted_causes |-> Sentinel,
         extracted_ai_snippet |-> <<>>,
         docket_candidates |-> <<>>]

\* when another specification runs, the variables of this part stay put
RiskIdle ==
    /\ r_title = <<>> /\ r_reason = <<>> /\ r_nature = <<>>
    /\ news_score = 0 /\ news_done = FALSE
    /\ case_score = 0 /\ case_done = FALSE

CountryIdle ==
    /\ c_title = <<>> /\ c_text = <<>> /\ c_country = <<>> /\ c_done = FALSE

NewsIdle ==
    /\ news_items = <<>> /\ known_cases = <<>> /\ lookback_days = 0
    /\ now = <<>> /\ idx = 0 /\ results = <<>> /\ merged = <<>>
    /\ fetch_log = <<>> /\ scores = <<>> /\ pc = "idle"

DocketIdle ==
    /\ docket_id = 0 /\ docket_resp = <<>> /\ court_resp = <<>>
    /\ parties_resp = <<>> /\ summary = <<>> /\ raised = FALSE /\ dpc = "idle"

----------------------------------------------------------------------------
(* Inputs of the risk scorer *)

MaxTitleWords == 2

TitleWords == {S("Scraped "), S("training data "), S("for profit "), S("copyright suit "),
               S("CLASS ACTION "), S("news "), S("docket 820 "),
               S("Common Crawl LLM revenue ")}

ReasonTexts == {<<>>, S("policy update"), S("DMCA putative class"), S("filed under 820")}

NatureTexts == {<<>>, S("820 Copyright"), S("440 Civil Rights")}

RiskInit ==
    /\ r_title \in {Concat(ws) : ws \in SeqsUpTo(TitleWords, MaxTitleWords)}
    /\ r_reason \in ReasonTexts
    /\ r_nature \in NatureTexts
    /\ news_score = 0 /\ news_done = FALSE
    /\ case_score = 0 /\ case_done = FALSE
    /\ CountryIdle /\ NewsIdle /\ DocketIdle

\* render_markdown scores a news record
ScoreNews ==
    /\ ~news_done
    /\ news_score' = calculate_news_risk_score(r_title, r_reason)
    /\ news_done' = TRUE
    /\ UNCHANGED <<r_title, r_reason, r_nature, case_score, case_done, countryVars, newsVars, docketVars>>

\* a docket summary is scored
ScoreCase ==
    /\ ~case_done
    /\ case_score' = calculate_case_risk_score(
            [extracted_ai_snippet |-> r_title, extracted_causes |-> r_reason,
             nature_of_suit |-> r_nature])
    /\ case_done' = TRUE
    /\ UNCHANGED <<r_title, r_reason, r_nature, news_score, news_done, countryVars, newsVars, docketVars>>

RiskNext == ScoreNews \/ ScoreCase

SpecRisk == RiskInit /\ [][RiskNext]_vars

----------------------------------------------------------------------------
(* Claims about the risk scorer, checked under SpecRisk *)

\* the weights of the five categories: unauthorized collection, model
\* training, commercial use, copyright litigation, class action
CategoryWeight == <<30, 30, 15, 15, 10>>

NewsCategoryKw == <<NewsCollectionKw, NewsTrainingKw, NewsCommercialKw, NewsCopyrightKw,
                    NewsClassActionKw>>
CaseCategoryKw == <<CaseCollectionKw, CaseTrainingKw, CaseCommercialKw, CaseCopyrightKw,
                    CaseClassActionKw>>

\* the categories with at least one keyword in the text
HitCategories(catKw, text) == {i \in 1..Len(catKw) : any_in(catKw[i], text)}

RECURSIVE WeightSum(_)
WeightSum(H) ==
    IF H = {} THEN 0
    ELSE LET i == CHOOSE i \in H : TRUE IN CategoryWeight[i] + WeightSum(H \ {i})

\* the lowercased concatenated text both scorers look at
RiskText == lower(r_title \o S(" ") \o r_reason)

NatureHas820 == Contains(S("820"), r_nature)

\* C1 as stated: both scorers return the sum of the weights of exactly the
\* categories that have a keyword in the lowercased text, within 0..100.
C1_ScoreIsSumOfKeywordHits ==
    /\ news_done => /\ news_score = WeightSum(HitCategories(NewsCategoryKw, RiskText))
                    /\ news_score \in 0..100
    /\ case_done => /\ case_score = WeightSum(HitCategories(CaseCategoryKw, RiskText))
                    /\ case_score \in 0..100

\* C1 amended: as C1, but for calculate_case_risk_score the copyright
\* category (the fourth) also counts when nature_of_suit contains "820",
\* whether or not the text has a copyright keyword.
C1_ScoreIsSumOfHits ==
    /\ news_done => /\ news_score = WeightSum(HitCategories(NewsCategoryKw, RiskText))
                    /\ news_score \in 0..100
    /\ case_done =>
         /\ case_score = WeightSum(HitCategories(CaseCategoryKw, RiskText)
                                   \cup (IF NatureHas820 THEN {4} ELSE {}))
         /\ case_score \in 0..100

\* a text that matches all five categories has been scored 100 by both
C1_Witness ==
    /\ news_done /\ case_done
    /\ HitCategories(NewsCategoryKw, RiskText) = 1..5
    /\ news_score = 100 /\ case_score = 100

\* C7 as stated: on the same text, and with a nature_of_suit that does not
\* contain 820, the news scorer and the case scorer return the same score.
C7_ScorersAgree ==
    (news_done /\ case_done /\ ~NatureHas820) => news_score = case_score

\* C7 amended: on the same text, and with a nature_of_suit that does not
\* contain 820, the two scorers agree whenever the text does not contain
\* "820"; the news scorer alone treats "820" in the text as a copyright
\* keyword, so on a text with "820" and no other copyright keyword it
\* scores 15 more than the case scorer.
C7_ScorersAgreeUpTo820 ==
    (news_done /\ case_done /\ ~NatureHas820) =>
        IF Contains(S("820"), RiskText) /\ ~any_in(CaseCopyrightKw, RiskText)
        THEN news_score = case_score + 15
        ELSE news_score = case_score

\* both scorers have scored a text without "820" that hits three categories
C7_Witness ==
    /\ news_done /\ case_done /\ ~NatureHas820
    /\ ~Contains(S("820"), RiskText)
    /\ news_score = 75 /\ case_score = 75

----------------------------------------------------------------------------
(* Inputs of the country inference *)

MaxCountryWords == 2

CountryWords == {S("EU "), S("Korea "), S("North KOREA "), S("Nigeria "),
                 S("Niger "), S("Guinea-Bissau "), S("Saint Helena "),
                 S("Ascension and Tristan da Cunha "), S("AI rules "),
                 <<"uD55C", "uAD6D", " ">>}

CountryTexts == {<<>>, S("Seoul, south korea and Republic of Korea")}

CountryInit ==
    /\ c_title \in {Concat(ws) : ws \in SeqsUpTo(CountryWords, MaxCountryWords)}
    /\ c_text \in CountryTexts
    /\ c_country = <<>> /\ c_done = FALSE
    /\ RiskIdle /\ NewsIdle /\ DocketIdle

\* build_regulations_from_news infers the country of an item
InferCountry ==
    /\ ~c_done
    /\ c_country' = extract_country(c_text, c_title)
    /\ c_done' = TRUE
    /\ UNCHANGED <<c_title, c_text, riskVars, newsVars, docketVars>>

CountryNext == InferCountry

SpecCountry == CountryInit /\ [][CountryNext]_vars

----------------------------------------------------------------------------
(* Inputs of build_regulations_from_news *)

MaxItems == 2

TitleEU == S("EU AI Act copyright ruling")
TitleKR == S("Korea AI policy bill")
TitleGetty == S("Getty v. Stability hearing")

UrlA == S("http://a")
UrlB == S("http://b")
UrlC == S("http://c")
UrlD == S("http://d")

Today == <<2024, 6, 10, 12>>

\* the news items a run may be given: [title, url, published_at]
Catalogue == {
    [title |-> TitleEU, url |-> UrlA, published_at |-> <<2024, 6, 10, 8>>],
    [title |-> TitleEU, url |-> UrlB, published_at |-> <<2024, 6, 8, 9>>],
    [title |-> TitleKR, url |-> UrlC, published_at |-> None],
    [title |-> TitleKR, url |-> UrlA, published_at |-> <<2024, 6, 5, 12>>],
    [title |-> TitleKR, url |-> UrlB, published_at |-> <<2024, 6, 7, 12>>],
    [title |-> TitleGetty, url |-> UrlC, published_at |-> <<2024, 6, 10, 8>>]}

PageCrawl == S("Court says training data scraped from Common Crawl")
PageEthics == S("EU ethics guideline; legal review")
PagePolicy == S("Policy dispute over model data")

FailedFetch == [ok |-> FALSE, text |-> <<>>, url |-> <<>>]

\* what requests.get and the markup stripping may give for a url: an
\* exception (timeout, transport error, non-2xx), a page without text, a
\* page, a redirect to another page
Responses(url) ==
    IF url = UrlA THEN {FailedFetch, [ok |-> TRUE, text |-> PageCrawl, url |-> url]}
    ELSE IF url = UrlB
    THEN {FailedFetch, [ok |-> TRUE, text |-> PageCrawl, url |-> url],
          [ok |-> TRUE, text |-> PageEthics, url |-> url \o S("/amp")]}
    ELSE IF url = UrlD
    THEN {[ok |-> TRUE, text |-> PageEthics, url |-> url],
          [ok |-> TRUE, text |-> PagePolicy, url |-> url]}
    ELSE {[ok |-> TRUE, text |-> <<>>, url |-> url],
          [ok |-> TRUE, text |-> PageCrawl, url |-> <<>>],
          [ok |-> TRUE, text |-> PageEthics, url |-> url \o S("/amp")]}

\* data/known_cases.yml: two curated entries, both triggered by the third
\* title; the first has no case_title and no reason override
KnownCases == <<
    [match |-> [any |-> <<S("Getty"), S("getty images")>>],
     enrich |-> [country |-> <<"uC601", "uAD6D">>, case_number |-> S("IL-2023-000007")]],
    [match |-> [any |-> <<S("stability"), S("hearing")>>],
     enrich |-> [country |-> <<"uBBF8", "uAD6D">>, case_title |-> S("Stability AI"),
                 reason |-> S("Unauthorized scraping for model training")]]>>

NewsInit ==
    /\ news_items \in SeqsUpTo(Catalogue, MaxItems)
    /\ known_cases = KnownCases
    /\ lookback_days = 3
    /\ now = Today
    /\ idx = 1
    /\ results = <<>> /\ merged = <<>> /\ fetch_log = <<>> /\ scores = <<>>
    /\ pc = "loop"
    /\ RiskIdle /\ CountryIdle /\ DocketIdle

\* the loop body for an item older than the cutoff: continue, no fetch
DropOld ==
    /\ pc = "loop" /\ idx <= Len(news_items)
    /\ too_old(news_items[idx], cutoff_of(now, lookback_days))
    /\ fetch_log' = Append(fetch_log, [did |-> "old", resp |-> FailedFetch])
    /\ idx' = idx + 1
    /\ UNCHANGED <<news_items, known_cases, lookback_days, now, results, merged, scores,
                   pc, riskVars, countryVars, docketVars>>

\* the loop body when the fetch gives no text, losing the records built so
\* far
DropUnfetchedAndResults ==
    /\ pc = "loop" /\ idx <= Len(news_items)
    /\ ~too_old(news_items[idx], cutoff_of(now, lookback_days))
    /\ \E resp \in Responses(news_items[idx].url) :
          /\ fetch_page_text(news_items[idx].url, resp).text = <<>>
          /\ fetch_log' = Append(fetch_log, [did |-> "unfetched", resp |-> resp])
    /\ idx' = idx + 1
    /\ results' = <<>>
    /\ UNCHANGED <<news_items, known_cases, lookback_days, now, merged, scores,
                   pc, riskVars, countryVars, docketVars>>

\* the loop body when the fetch gives no text: continue
DropUnfetched ==
    /\ pc = "loop" /\ idx <= Len(news_items)
    /\ ~too_old(news_items[idx], cutoff_of(now, lookback_days))
    /\ \E resp \in Responses(news_items[idx].url) :
          /\ fetch_page_text(news_items[idx].url, resp).text = <<>>
          /\ fetch_log' = Append(fetch_log, [did |-> "unfetched", resp |-> resp])
    /\ idx' = idx + 1
    /\ UNCHANGED <<news_items, known_cases, lookback_days, now, results, merged, scores,
                   pc, riskVars, countryVars, docketVars>>

\* the loop body when no relevance keyword is in title + text: continue
DropIrrelevant ==
    /\ pc = "loop" /\ idx <= Len(news_items)
    /\ ~too_old(news_items[idx], cutoff_of(now, lookback_days))
    /\ \E resp \in Responses(news_items[idx].url) :
          LET page == fetch_page_text(news_items[idx].url, resp)
          IN  /\ page.text # <<>>
              /\ found_keywords(news_items[idx].title \o S(" ") \o page.text) = <<>>
              /\ fetch_log' = Append(fetch_log, [did |-> "irrelevant", resp |-> resp])
    /\ idx' = idx + 1
    /\ UNCHANGED <<news_items, known_cases, lookback_days, now, results, merged, scores,
                   pc, riskVars, countryVars, docketVars>>

\* the loop body for a qualifying item: a record is appended to results
EmitRecord ==
    /\ pc = "loop" /\ idx <= Len(news_items)
    /\ ~too_old(news_items[idx], cutoff_of(now, lookback_days))
    /\ \E resp \in Responses(news_items[idx].url) :
          LET item == news_items[idx]
              page == fetch_page_text(item.url, resp)
          IN  /\ page.text # <<>>
              /\ found_keywords(item.title \o S(" ") \o page.text) # <<>>
              /\ results' = Append(results,
                     new_record(item, page.text, page.final_url, known_cases, now))
              /\ fetch_log' = Append(fetch_log, [did |-> "emitted", resp |-> resp])
    /\ idx' = idx + 1
    /\ UNCHANGED <<news_items, known_cases, lookback_days, now, merged, scores, pc,
                   riskVars, countryVars, docketVars>>

\* after the loop: the merge pass, and the return
MergeAndReturn ==
    /\ pc = "loop" /\ idx > Len(news_items)
    /\ merged' = merge_pass(results)
    /\ pc' = "done"
    /\ UNCHANGED <<news_items, known_cases, lookback_days, now, idx, results, fetch_log,
                   scores, riskVars, countryVars, docketVars>>

\* render_markdown: risk_score of each returned record
RenderScores ==
    /\ pc = "done"
    /\ scores' = [k \in 1..Len(merged) |->
                    calculate_news_risk_score(
                        str_or(merged[k].article_title, merged[k].case_title),
                        merged[k].reason)]
    /\ pc' = "rendered"
    /\ UNCHANGED <<news_items, known_cases, lookback_days, now, idx, results, merged,
                   fetch_log, riskVars, countryVars, docketVars>>

Next ==
    \/ DropOld \/ DropUnfetched \/ DropIrrelevant \/ EmitRecord
    \/ MergeAndReturn \/ RenderScores

Spec == NewsInit /\ [][Next]_vars

----------------------------------------------------------------------------
(* Known-case lists for single-item runs of build_regulations_from_news *)

EntryGetty == KnownCases[1]
EntryStability == KnownCases[2]
EntryEUAct ==
    [match |-> [any |-> <<S("EU AI ACT")>>],
     enrich |-> [case_title |-> S("EU AI Act (2024/1689)"),
                 case_number |-> S("EU-2024-1689")]]
EntryBody ==
    [match |-> [any |-> <<S("Common crawl")>>],
     enrich |-> [reason |-> S("Crawled corpus dispute")]]
EntryKorea ==
    [match |-> [any |-> <<S("seoul"), S("POLICY")>>],
     enrich |-> [country |-> S("KR"), reason |-> S("Korean framework act")]]
\* an entry with an empty any-list, one without a match key, one without an
\* enrich payload
EntryNoTerms == [match |-> [any |-> <<>>], enrich |-> [country |-> S("Nowhere")]]
EntryNoMatch == [enrich |-> [country |-> S("Nowhere")]]
EntryBare == [match |-> [any |-> <<S("korea")>>]]

KnownLists ==
    {<<>>,
     KnownCases,
     <<EntryStability, EntryGetty>>,
     <<EntryNoTerms, EntryNoMatch, EntryEUAct, EntryBody>>,
     <<EntryBody, EntryEUAct, EntryKorea>>,
     <<EntryBare, EntryKorea>>,
     <<EntryKorea, EntryBare>>}

KnownInit ==
    /\ news_items \in {<<c>> : c \in Catalogue}
    /\ known_cases \in KnownLists
    /\ lookback_days = 3
    /\ now = Today
    /\ idx = 1
    /\ results = <<>> /\ merged = <<>> /\ fetch_log = <<>> /\ scores = <<>>
    /\ pc = "loop"
    /\ RiskIdle /\ CountryIdle /\ DocketIdle

SpecKnown == KnownInit /\ [][Next]_vars

----------------------------------------------------------------------------
(* Runs of build_regulations_from_news on articles about one matter *)

MaxFoldItems == 3

\* two articles with the third title, whose pages differ from fetch to
\* fetch, and an article older than the cutoff
FoldCatalogue == {
    [title |-> TitleGetty, url |-> UrlD, published_at |-> <<2024, 6, 9, 9>>],
    [title |-> TitleGetty, url |-> UrlC, published_at |-> <<2024, 6, 10, 8>>],
    [title |-> TitleKR, url |-> UrlA, published_at |-> <<2024, 6, 5, 12>>]}

FoldInit ==
    /\ news_items \in SeqsUpTo(FoldCatalogue, MaxFoldItems)
    /\ known_cases = KnownCases
    /\ lookback_days = 3
    /\ now = Today
    /\ idx = 1
    /\ results = <<>> /\ merged = <<>> /\ fetch_log = <<>> /\ scores = <<>>
    /\ pc = "loop"
    /\ RiskIdle /\ CountryIdle /\ DocketIdle

SpecFold == FoldInit /\ [][Next]_vars

----------------------------------------------------------------------------
(* Claims about build_regulations_from_news, checked under Spec *)

Returned == pc \in {"done", "rendered"}

\* the position in news_items of the item the j-th record of results was
\* built from (once the loop has ended)
ItemOfResult(j) ==
    CHOOSE k \in 1..Len(fetch_log) :
        /\ fetch_log[k].did = "emitted"
        /\ Cardinality({q \in 1..k : fetch_log[q].did = "emitted"}) = j

\* the text the loop got for the k-th item
TextOf(k) == fetch_page_text(news_items[k].url, fetch_log[k].resp).text

\* the calendar date <<y, m, d>> of the k-th item: of published_at, or of
\* the clock when it is None
DateOf(k) ==
    LET dt == IF news_items[k].published_at # None
              THEN news_items[k].published_at ELSE now
    IN  <<dt[1], dt[2], dt[3]>>

\* d1 is the same day as d2 or an earlier one
DateLeq(d1, d2) ==
    \/ d1 = d2
    \/ \E i \in 1..3 : (\A j \in 1..(i - 1) : d1[j] = d2[j]) /\ d1[i] < d2[i]

\* the records of results that share the merge key of record m
GroupOf(m) == {j \in 1..Len(results) : merge_key(results[j]) = merge_key(m)}

\* C2: the returned list has exactly one record per distinct merge key of
\* the built records; its article_urls are the union of the URLs of all
\* records with that key and its date is the chronologically latest of
\* theirs; records that differ in a key component stay apart.
C2_OneRecordPerKey ==
    Returned =>
        /\ \A a, b \in 1..Len(merged) : merge_key(merged[a]) = merge_key(merged[b]) => a = b
        /\ {merge_key(merged[a]) : a \in 1..Len(merged)}
             = {merge_key(results[j]) : j \in 1..Len(results)}
        /\ \A a \in 1..Len(merged) :
             LET group == GroupOf(merged[a])
             IN  /\ set_of(merged[a].article_urls)
                      = UNION {set_of(results[j].article_urls) : j \in group}
                 /\ \E j \in group :
                      /\ \A q \in group : DateLeq(DateOf(ItemOfResult(q)),
                                                  DateOf(ItemOfResult(j)))
                      /\ merged[a].update_or_filed_date
                           = zero_padded(DateOf(ItemOfResult(j))[1], 4) \o S("-")
                             \o zero_padded(DateOf(ItemOfResult(j))[2], 2) \o S("-")
                             \o zero_padded(DateOf(ItemOfResult(j))[3], 2)

\* two items with the same key, the second of a later day and another URL,
\* have been folded into one record
C2_Witness ==
    /\ Returned /\ Len(results) = 2 /\ Len(merged) = 1
    /\ results[1].update_or_filed_date # results[2].update_or_filed_date
    /\ merged[1].update_or_filed_date = results[2].update_or_filed_date
    /\ results[1].article_urls # results[2].article_urls

\* C3: the loop drops an item on date grounds exactly when its published_at
\* is set and strictly before now - lookback_days; an item published at the
\* cutoff or later, or without published_at, is not dropped for its date.
C3_LookbackCutoff ==
    \A k \in 1..Len(fetch_log) :
        LET item == news_items[k]
            cutoff == minus_days(now, lookback_days)
        IN  (fetch_log[k].did = "old")
              <=> (item.published_at # None /\ datetime_lt(item.published_at, cutoff))

\* with lookback_days = 3 and now on 2024-06-10: an item of 2024-06-05 has
\* been dropped for its date and one published exactly at the cutoff was kept
C3_Witness ==
    /\ Returned /\ lookback_days = 3 /\ now = <<2024, 6, 10, 12>>
    /\ \E k \in 1..Len(fetch_log) :
          /\ news_items[k].published_at = <<2024, 6, 5, 12>>
          /\ fetch_log[k].did = "old"
    /\ \E k \in 1..Len(fetch_log) :
          /\ news_items[k].published_at = <<2024, 6, 7, 12>>
          /\ fetch_log[k].did = "emitted"

\* the run of the example: the one item "EU AI Act copyright ruling",
\* published today, whose page has the text about Common Crawl
ExampleRun ==
    /\ pc = "rendered"
    /\ Len(news_items) = 1
    /\ news_items[1].title = S("EU AI Act copyright ruling")
    /\ news_items[1].published_at = <<2024, 6, 10, 8>>
    /\ Contains(S("training data scraped from Common Crawl"), TextOf(1))

C8_MergeIdempotent ==
    Returned =>
        /\ Len(merge_pass(merged)) = Len(merged)
        /\ set_of(merge_pass(merged)) = set_of(merged)

\* the first pass has folded two records into one
C8_Witness ==
    /\ Returned /\ Len(results) = 2 /\ Len(merged) = 1
    /\ merged[1] # results[1]

\* the relevance keywords in the title and text of the items of a group
GroupKeywords(m) ==
    UNION {set_of(found_keywords(news_items[ItemOfResult(j)].title \o S(" ")
                                 \o TextOf(ItemOfResult(j)))) : j \in GroupOf(m)}

\* C9: every returned record, folded or not, has matched_keywords equal to
\* the sorted, duplicate-free relevance keywords that matched in its group's
\* items, joined with ", ".
C9_KeywordsSorted ==
    Returned =>
        \A a \in 1..Len(merged) :
            merged[a].matched_keywords = join(S(", "), sorted(GroupKeywords(merged[a])))

\* the loop body as a function of the item and the outcome of its fetch:
\* the records it appends
RecordsOf(item, resp) ==
    LET page == fetch_page_text(item.url, resp)
    IN  IF item.published_at # None
           /\ datetime_lt(item.published_at, minus_days(now, lookback_days))
        THEN <<>>
        ELSE IF page.text = <<>> THEN <<>>
        ELSE IF found_keywords(item.title \o S(" ") \o page.text) = <<>> THEN <<>>
        ELSE <<new_record(item, page.text, page.final_url, known_cases, now)>>

\* the items of the run whose fetch did not come back empty, in order
RECURSIVE KeptUpTo(_)
KeptUpTo(k) ==
    IF k = 0 THEN <<>>
    ELSE IF fetch_log[k].did = "unfetched" THEN KeptUpTo(k - 1)
    ELSE Append(KeptUpTo(k - 1), k)

\* what a run on the kept items alone returns
RunOnKept ==
    LET kept == KeptUpTo(Len(fetch_log))
    IN  merge_pass(Concat([q \in 1..Len(kept) |->
                RecordsOf(news_items[kept[q]], fetch_log[kept[q]].resp)]))

\* C10: the loop takes every item in turn whatever the fetches do, and
\* returns; the items it drops as unfetched are exactly those whose fetch
\* gave no text (failed or empty); and it returns what a run on the other
\* items alone returns.
C10_FailedFetchIsolated ==
    /\ \A k \in 1..Len(fetch_log) :
          fetch_log[k].did # "old" =>
             ((fetch_log[k].did = "unfetched")
                <=> (~fetch_log[k].resp.ok \/ fetch_log[k].resp.text = <<>>))
    /\ Len(fetch_log) = idx - 1
    /\ Returned => (Len(fetch_log) = Len(news_items) /\ merged = RunOnKept)

\* a record was built, the fetch of a later item failed, and the record has
\* been returned
C10_Witness ==
    /\ Returned /\ Len(merged) = 1 /\ Len(fetch_log) = 2
    /\ fetch_log[1].did = "emitted"
    /\ fetch_log[2].did = "unfetched" /\ ~fetch_log[2].resp.ok

----------------------------------------------------------------------------
(* Claims about the known-case override, checked under SpecKnown *)

\* the any-list of the i-th entry of known_cases
AnyTerms(i) == dict_get(dict_get(known_cases[i], "match", EmptyDict), "any", <<>>)

\* the entries with a term that occurs, letter case ignored, in the title
\* or in the body
KnownHits(title, text) ==
    {i \in 1..Len(known_cases) :
        \E t \in 1..Len(AnyTerms(i)) :
            \/ Contains(lower(AnyTerms(i)[t]), lower(title))
            \/ Contains(lower(AnyTerms(i)[t]), lower(text))}

\* the enrich payload of the first of them ({} without one)
FirstHitPayload(title, text) ==
    LET hits == KnownHits(title, text)
    IN  IF hits = {} THEN EmptyDict
        ELSE dict_get(known_cases[CHOOSE i \in hits : \A j \in hits : i <= j],
                      "enrich", EmptyDict)

\* the run has returned the record of its one item
OneRecordReturned == Returned /\ Len(news_items) = 1 /\ Len(merged) = 1

----------------------------------------------------------------------------
(* Claims about the retained record, checked under SpecFold *)

\* the first-seen built record with the merge key of m
FirstSeen(m) == results[CHOOSE j \in GroupOf(m) : \A q \in GroupOf(m) : j <= q]

\* C15: the record returned for a key group is its first-seen member with
\* only article_urls, update_or_filed_date and matched_keywords changed by
\* the folds: reason, country, case_title, article_title and case_number are
\* the first-seen member's, whatever reason the later members carry.
C15_FirstSeenRetained ==
    Returned =>
        \A i \in 1..Len(merged) :
            LET m == merged[i]
                f == FirstSeen(m)
            IN  /\ GroupOf(m) # {}
                /\ m.reason = f.reason
                /\ m.country = f.country
                /\ m.case_title = f.case_title
                /\ m.article_title = f.article_title
                /\ m.case_number = f.case_number
                /\ m = [f EXCEPT !.article_urls = m.article_urls,
                                 !.update_or_filed_date = m.update_or_filed_date,
                                 !.matched_keywords = m.matched_keywords]

\* three articles were folded into one record, in two folds, and the two
\* later members both carry a reason other than the first one's
C15_Witness ==
    /\ Returned
    /\ Len(results) = 3 /\ Len(merged) = 1
    /\ results[2].reason # results[1].reason
    /\ results[3].reason # results[1].reason
    /\ merged[1].reason = results[1].reason
    /\ merged[1].article_urls # results[1].article_urls

----------------------------------------------------------------------------
(* Claims about the country inference, checked under SpecCountry *)

CountrySearchText == lower(c_title \o S(" ") \o c_text)

\* the table entries with at least one keyword in the lowercased title+text
CountryHits ==
    LET text == CountrySearchText
    IN  {i \in 1..Len(CountryMapping) : any_in(CountryMapping[i].keywords, text)}

\* the number of keywords of entry i in the lowercased title+text
CountryHitCount(i) ==
    Cardinality({k \in 1..Len(CountryMapping[i].keywords) :
                    Contains(CountryMapping[i].keywords[k], CountrySearchText)})

\* C4: extract_country returns the label of the earliest-declared entry that
\* has a keyword in the lowercased title+text, however many keywords of each
\* entry occur, and the catch-all label exactly when no entry has one.
C4_FirstMatchInTableOrder ==
    c_done =>
        /\ (c_country = OtherCountry) <=> (CountryHits = {})
        /\ CountryHits # {} =>
             \E i \in CountryHits :
                /\ \A j \in CountryHits : i <= j
                /\ c_country = CountryMapping[i].country

\* two entries match, the later-declared one with more keywords, and the
\* earlier one's label has been returned
C4_Witness ==
    /\ c_done
    /\ \E i, j \in CountryHits :
          /\ i < j
          /\ CountryHitCount(j) > CountryHitCount(i)
          /\ c_country = CountryMapping[i].country


\* the table entries with a keyword that occurs in the title+text when
\* letter case is ignored on both sides
CaseFoldHits ==
    LET text == CountrySearchText
    IN  {i \in 1..Len(CountryMapping) :
            \E k \in 1..Len(CountryMapping[i].keywords) :
                Contains(lower(CountryMapping[i].keywords[k]), text)}

\* C11: keyword matching is case-insensitive: a text that holds a declared
\* keyword in any letter case is matched by that keyword's entry, so the
\* country returned is that of the first entry with a keyword in the text up
\* to letter case (the first entry for "Ascension and Tristan da Cunha").
C11_KeywordsMatchAnyCase ==
    (c_done /\ CaseFoldHits # {}) =>
        \E i \in CaseFoldHits :
            /\ \A j \in CaseFoldHits : i <= j
            /\ c_country = CountryMapping[i].country

----------------------------------------------------------------------------
(* Inputs of the docket summariser *)

DocketIds == {0, 7}

\* a docket with every alternative spelling of every field
FullDocket ==
    [case_name |-> S("Doe v. OpenAI"), caseName |-> S("Doe v OpenAI Inc"),
     docket_number |-> S("1:24-cv-00123"), docketNumber |-> S("24-123"),
     court |-> S("nysd"), court_id |-> S("cand"), courtId |-> S("ded"),
     date_filed |-> S("2024-05-01T09:30:00Z"), dateFiled |-> S("2024-05-02"),
     date_terminated |-> S("2024-06-01T00:00:00Z"), dateTerminated |-> S("2024-06"),
     assigned_to_str |-> S("Judge A"), assignedToStr |-> S("Judge B"),
     assigned_to |-> S("Judge C"), assignedTo |-> S("Judge D"),
     referred_to_str |-> S("Mag A"), referredToStr |-> S("Mag B"),
     referred_to |-> S("Mag C"), referredTo |-> S("Mag D"),
     nature_of_suit |-> S(" 820 Copyright "), natureOfSuit |-> S("820"),
     cause |-> S("17:501 Copyright Infringement")]

FieldKeys == <<CaseNameKeys, DocketNumberKeys, CourtKeys, DateFiledKeys,
               DateTerminatedKeys, JudgeKeys, MagistrateKeys, NatureOfSuitKeys,
               CauseKeys>>

\* what a key of the payload can hold: its value of FullDocket, a blank
\* string, an empty string, or nothing (the key is absent)
ValueKinds(keys) ==
    IF Len(keys) <= 2 THEN {"text", "blank", "empty", "absent"}
    ELSE {"text", "blank", "absent"}

\* the payload with only the keys of one field, each as its kind says
OneField(keys, kind) ==
    LET present == {keys[i] : i \in {j \in 1..Len(keys) : kind[j] # "absent"}}
        pos(k) == CHOOSE i \in 1..Len(keys) : keys[i] = k
    IN  [k \in present |->
            CASE kind[pos(k)] = "text" -> FullDocket[k]
              [] kind[pos(k)] = "blank" -> S(" ")
              [] OTHER -> <<>>]

DocketPayloads ==
    {FullDocket} \cup
    UNION {{OneField(FieldKeys[g], kind) :
                kind \in [1..Len(FieldKeys[g]) -> ValueKinds(FieldKeys[g])]} :
           g \in 1..Len(FieldKeys)}

DocketResponses == {NoJson} \cup {JsonMapping(d) : d \in DocketPayloads}

CourtResponses ==
    {NoJson,
     JsonMapping([short_name |-> S("S.D.N.Y.")]),
     JsonMapping([full_name |-> S("District Court")])}

PartyDoe == [name |-> S("Jane Doe"), party_type |-> S("Plaintiff")]
PartyOpenAI == [party_name |-> S(" OpenAI, Inc. ")]
PartyBlank == [name |-> S(" "), partyName |-> S("Hidden Co"), role |-> S("Defendant")]
PartyAcme == [partyName |-> S("Acme"), role |-> S("Defendant")]
PartyNameless == [role |-> S("Intervenor")]

PartiesResponses ==
    {NoJson,
     JsonList(<<>>),
     JsonList(<<PartyDoe>>),
     JsonList(<<PartyBlank>>),
     JsonList(<<PartyDoe, PartyOpenAI, PartyBlank, PartyAcme>>),
     JsonList([i \in 1..(max_n + 1) |-> IF i = 2 THEN PartyOpenAI ELSE PartyDoe]),
     JsonList([i \in 1..(max_n + 1) |-> IF i > max_n THEN PartyDoe ELSE PartyNameless]),
     JsonMapping(EmptyDict),
     JsonMapping([count |-> S("1"), results |-> <<PartyDoe>>])}

NoSummary == <<>>

DocketInit ==
    /\ docket_id \in DocketIds
    /\ docket_resp \in DocketResponses
    /\ court_resp \in CourtResponses
    /\ parties_resp \in PartiesResponses
    /\ summary = NoSummary
    /\ raised = FALSE
    /\ dpc = "call"
    /\ RiskIdle /\ CountryIdle /\ NewsIdle

\* if not docket_id: return None
ReturnNone ==
    /\ dpc = "call"
    /\ docket_id = 0
    /\ summary' = NoSummary
    /\ dpc' = "returned"
    /\ UNCHANGED <<docket_id, docket_resp, court_resp, parties_resp, raised,
                   riskVars, countryVars, newsVars>>

\* the call gets as far as _format_parties, which slices a mapping
RaiseInFormatParties ==
    /\ dpc = "call"
    /\ docket_id # 0
    /\ parties_raise(parties_resp)
    /\ raised' = TRUE
    /\ dpc' = "returned"
    /\ UNCHANGED <<docket_id, docket_resp, court_resp, parties_resp, summary,
                   riskVars, countryVars, newsVars>>

ReturnSummary ==
    /\ dpc = "call"
    /\ docket_id # 0
    /\ ~parties_raise(parties_resp)
    /\ summary' = build_case_summary_from_docket_id(docket_id, docket_resp,
                                                    court_resp, parties_resp)
    /\ dpc' = "returned"
    /\ UNCHANGED <<docket_id, docket_resp, court_resp, parties_resp, raised,
                   riskVars, countryVars, newsVars>>

DocketNext == ReturnNone \/ RaiseInFormatParties \/ ReturnSummary

SpecDocket == DocketInit /\ [][DocketNext]_vars

----------------------------------------------------------------------------
(* Claims about the docket summariser *)

StringFields ==
    {"case_name", "docket_number", "court", "court_short_name", "court_api_url",
     "date_filed", "status", "judge", "magistrate", "nature_of_suit", "cause",
     "parties", "complaint_doc_no", "complaint_link", "recent_updates",
     "extracted_causes", "extracted_ai_snippet", "docket_candidates"}

\* the docket request failed, for a non-zero id, and the call has ended
DocketFetchFailed ==
    dpc = "returned" /\ docket_id # 0 /\ docket_resp = NoJson

\* C5: when the docket fetch fails for a non-zero docket id, the call raises
\* nothing and returns a CLCaseSummary whose every string field is the
\* unconfirmed sentinel, so none is empty.
C5_FailedDocketAllSentinel ==
    DocketFetchFailed =>
        /\ ~raised
        /\ summary # NoSummary
        /\ \A f \in StringFields : summary[f] = Sentinel

\* the docket payload the call read its fields from
DocketRead == IF falsy(docket_resp) THEN EmptyDict ELSE docket_resp.items

\* the call has returned a CLCaseSummary
SummaryReturned == dpc = "returned" /\ docket_id # 0 /\ ~raised

\* the value of the first key of keys whose value in d is non-empty once
\* trimmed, and the sentinel when there is no such key
FirstNonEmptyTrimmed(d, keys) ==
    LET usable == {i \in 1..Len(keys) : strip(dict_get(d, keys[i], <<>>)) # <<>>}
    IN  IF usable = {} THEN Sentinel
        ELSE strip(dict_get(d, keys[CHOOSE i \in usable : \A j \in usable : i <= j], <<>>))

\* C12: each logical field of the summary is the trimmed value of the first
\* alternative key whose value is non-empty after trimming, and the sentinel
\* only when no alternative key has one; the filing date is cut to its first
\* 10 characters.
C12_FirstNonEmptyKeyWins ==
    SummaryReturned =>
        /\ summary.case_name = FirstNonEmptyTrimmed(DocketRead, CaseNameKeys)
        /\ summary.docket_number = FirstNonEmptyTrimmed(DocketRead, DocketNumberKeys)
        /\ summary.court = FirstNonEmptyTrimmed(DocketRead, CourtKeys)
        /\ summary.date_filed =
              LET v == FirstNonEmptyTrimmed(DocketRead, DateFiledKeys)
              IN  IF v = Sentinel THEN v ELSE prefix(v, 10)
        /\ summary.judge = FirstNonEmptyTrimmed(DocketRead, JudgeKeys)
        /\ summary.magistrate = FirstNonEmptyTrimmed(DocketRead, MagistrateKeys)
        /\ summary.nature_of_suit = FirstNonEmptyTrimmed(DocketRead, NatureOfSuitKeys)

\* the list handed to _format_parties
PartiesGiven == IF falsy(parties_resp) THEN <<>> ELSE parties_resp.items

\* a party's name and type: the first alternative key with a non-empty
\* trimmed value, "" when there is none
PartyName(p) ==
    LET v == FirstNonEmptyTrimmed(p, PartyNameKeys) IN IF v = Sentinel THEN <<>> ELSE v

PartyType(p) ==
    LET v == FirstNonEmptyTrimmed(p, PartyTypeKeys) IN IF v = Sentinel THEN <<>> ELSE v

\* "name(type)" when a type is present, the bare name otherwise
Rendered(p) ==
    IF PartyType(p) # <<>> THEN PartyName(p) \o S("(") \o PartyType(p) \o S(")")
    ELSE PartyName(p)

\* the positions of the entries with a usable name
Usable(ps) == {i \in 1..Len(ps) : PartyName(ps[i]) # <<>>}

\* the rendered entries with a usable name among the first n, in order
RECURSIVE RenderedUpTo(_, _)
RenderedUpTo(ps, n) ==
    IF n = 0 THEN <<>>
    ELSE IF n \in Usable(ps) THEN Append(RenderedUpTo(ps, n - 1), Rendered(ps[n]))
    ELSE RenderedUpTo(ps, n - 1)

EndsWithEllipsis(s) == s # <<>> /\ s[Len(s)] = Ellipsis[1]

\* C13: the parties string is the sentinel exactly when no party of the list
\* has a usable name; it ends with the ellipsis marker whenever the list has
\* more than 12 parties; otherwise it is the "; "-join of at most 12 entries,
\* each "name(type)" or the bare name.
C13_PartiesFormat ==
    SummaryReturned =>
        LET ps == PartiesGiven
            shown == RenderedUpTo(ps, Min(max_n, Len(ps)))
        IN  /\ (summary.parties = Sentinel) <=> (Usable(ps) = {})
            /\ Len(ps) > max_n => EndsWithEllipsis(summary.parties)
            /\ Usable(ps) # {} =>
                 summary.parties =
                    join(S("; "), IF Len(ps) > max_n THEN Append(shown, Ellipsis) ELSE shown)

\* C16: whatever the docket, court and parties requests answer (a failure or
\* a JSON mapping, a non-empty mapping from the parties endpoint included),
\* the call raises nothing; it returns a CLCaseSummary for a non-zero id and
\* None for a zero id.
C16_NeverRaises ==
    (dpc = "returned" /\ parties_resp.kind \in {"none", "mapping"}) =>
        /\ ~raised
        /\ (docket_id = 0) <=> (summary = NoSummary)

====
